---- MODULE Spec2Model ----
(***************************************************************************)
(* Model of the unofficial-gospel-library MCP server (local-JSON revision,  *)
(* src/unnamed/part_002 lines 1-610): the range resolver                    *)
(* (parseVerseRange / parseParagraphRange) and the two linear searches      *)
(* (searchScriptures / searchConferenceTalks).                              *)
(*                                                                          *)
(* Strings are sequences of one-character strings, so that split, parseInt, *)
(* includes and toLowerCase are computed character by character the way     *)
(* the JavaScript built-ins compute them.                                   *)
(***************************************************************************)
EXTENDS Integers, Sequences, FiniteSets, TLC

(***************************************************************************)
(* Bounds of the model.                                                     *)
(***************************************************************************)
\* Numbers written in range expressions are drawn from -MaxNum..MaxNum.
MaxNum == 3
\* Verse lists and paragraph lists have at most MaxUnits elements.
MaxUnits == 2
\* Shape of the loaded corpus: collections, books of the first collection,
\* chapters of its first book; sessions, talks of the first session.
NumCollections == 2
MaxBooks == 2
MaxChapters == 2
NumSessions == 2
MaxTalks == 2
\* Search limits are drawn from 1..MaxLimit (or omitted).
MaxLimit == 2

(***************************************************************************)
(* JavaScript values and built-ins used by the source.                      *)
(***************************************************************************)
\* A JavaScript number is an integer or NaN.
Num(v) == [nan |-> FALSE, val |-> v]
NaN == [nan |-> TRUE, val |-> 0]
isNaN(x) == x.nan

\* Omitted argument of Array.prototype.slice.
undefined == [nan |-> TRUE, val |-> 1]

Min(a, b) == IF a < b THEN a ELSE b
Max(a, b) == IF a > b THEN a ELSE b

\* Unary minus as in slice(-count): -NaN is NaN.
Negate(x) == IF x.nan THEN NaN ELSE Num(0 - x.val)

\* a >= b and a <= b on numbers: every comparison with NaN is false.
Geq(a, b) == ~a.nan /\ ~b.nan /\ a.val >= b.val
Leq(a, b) == ~a.nan /\ ~b.nan /\ a.val <= b.val
\* a === b on numbers: NaN equals nothing.
StrictEq(a, b) == ~a.nan /\ ~b.nan /\ a.val = b.val

\* String.prototype.includes(sub): sub occurs as a contiguous substring.
includes(s, sub) ==
    \E i \in 1..(Len(s) + 1) :
        /\ i + Len(sub) - 1 <= Len(s)
        /\ SubSeq(s, i, i + Len(sub) - 1) = sub

\* Index of the first occurrence of character c in s, 0 when absent.
IndexOf(s, c) ==
    IF \E i \in 1..Len(s) : s[i] = c
    THEN CHOOSE i \in 1..Len(s) : s[i] = c /\ \A j \in 1..(i - 1) : s[j] # c
    ELSE 0

\* String.prototype.split(c) for a one-character separator: every piece
\* between occurrences of c, empty pieces included.
RECURSIVE split(_, _)
split(s, c) ==
    LET i == IndexOf(s, c)
    IN  IF i = 0 THEN <<s>>
        ELSE <<SubSeq(s, 1, i - 1)>> \o split(SubSeq(s, i + 1, Len(s)), c)

\* Array destructuring  const [x, y] = parts : a missing element is the
\* undefined value, which parseInt turns into NaN (modelled as the empty
\* string, which parseInt also turns into NaN).
Elem(parts, i) == IF i <= Len(parts) THEN parts[i] ELSE <<>>

\* Value of a digit character in radix 10 or 16; -1 when it is no digit.
DigitVal(c) ==
    CASE c = "0" -> 0 [] c = "1" -> 1 [] c = "2" -> 2 [] c = "3" -> 3
      [] c = "4" -> 4 [] c = "5" -> 5 [] c = "6" -> 6 [] c = "7" -> 7
      [] c = "8" -> 8 [] c = "9" -> 9
      [] c \in {"a", "A"} -> 10 [] c \in {"b", "B"} -> 11
      [] c \in {"c", "C"} -> 12 [] c \in {"d", "D"} -> 13
      [] c \in {"e", "E"} -> 14 [] c \in {"f", "F"} -> 15
      [] OTHER -> 0 - 1

IsDigit(c, radix) == DigitVal(c) >= 0 /\ DigitVal(c) < radix

\* Length of the longest prefix of s made of digits of the radix.
RECURSIVE DigitPrefixLen(_, _)
DigitPrefixLen(s, radix) ==
    IF Len(s) = 0 \/ ~IsDigit(s[1], radix) THEN 0
    ELSE 1 + DigitPrefixLen(Tail(s), radix)

\* Value of a string of digits of the radix.
RECURSIVE DigitsValue(_, _)
DigitsValue(s, radix) ==
    IF Len(s) = 0 THEN 0
    ELSE DigitsValue(SubSeq(s, 1, Len(s) - 1), radix) * radix + DigitVal(s[Len(s)])

\* Leading white space is skipped by parseInt.
RECURSIVE TrimStart(_)
TrimStart(s) ==
    IF Len(s) > 0 /\ s[1] = " " THEN TrimStart(Tail(s)) ELSE s

\* parseInt(s) with no radix argument: optional white space, optional sign,
\* optional 0x / 0X prefix (radix 16), then the longest run of digits; what
\* follows the run is ignored; NaN when the run is empty.
parseInt(s) ==
    LET t == TrimStart(s)
        neg == Len(t) > 0 /\ t[1] = "-"
        u == IF Len(t) > 0 /\ t[1] \in {"+", "-"} THEN Tail(t) ELSE t
        hex == Len(u) >= 2 /\ u[1] = "0" /\ u[2] \in {"x", "X"}
        radix == IF hex THEN 16 ELSE 10
        body == IF hex THEN SubSeq(u, 3, Len(u)) ELSE u
        n == DigitPrefixLen(body, radix)
        v == DigitsValue(SubSeq(body, 1, n), radix)
    IN  IF n = 0 THEN NaN ELSE Num(IF neg THEN 0 - v ELSE v)

\* ToIntegerOrInfinity of a slice argument: NaN becomes 0.
ToInteger(x) == IF x.nan THEN 0 ELSE x.val

\* A slice index relative to the array length: negative counts from the end.
RelIndex(x, len) ==
    LET r == ToInteger(x)
    IN  IF r < 0 THEN Max(len + r, 0) ELSE Min(r, len)

\* Array.prototype.slice(start, end): elements k .. final-1 (0-based), the
\* end defaulting to the length when omitted.
slice(arr, start, end) ==
    LET len == Len(arr)
        k == RelIndex(start, len)
        final == IF end = undefined THEN len ELSE RelIndex(end, len)
    IN  SubSeq(arr, k + 1, final)

\* Array.prototype.filter is SelectSeq: the elements satisfying the test,
\* in order.

\* The string literals 'first' and 'last'.
StrFirst == <<"f", "i", "r", "s", "t">>
StrLast == <<"l", "a", "s", "t">>

(***************************************************************************)
(* Outcomes of a call: a returned value or a thrown Error.                  *)
(***************************************************************************)
Return(v) == [ok |-> TRUE, value |-> v, error |-> "", detail |-> <<>>]
Throw(kind, raw) == [ok |-> FALSE, value |-> <<>>, error |-> kind, detail |-> raw]

(***************************************************************************)
(* parseVerseRange (src/unnamed/part_002:40-69).                            *)
(***************************************************************************)
\* Seeded fault: the window end is taken inclusive, slice(0, count + 1).
VerseFirst_InclusiveEnd(count, allVerses) ==
    slice(allVerses, Num(0), IF count.nan THEN count ELSE Num(count.val + 1))

\* allVerses.slice(0, count)
VerseFirst(count, allVerses) == slice(allVerses, Num(0), count)

\* Seeded fault: the list is reversed and the count taken from its front.
VerseLast_Reversed(count, allVerses) ==
    slice([k \in 1..Len(allVerses) |-> allVerses[Len(allVerses) + 1 - k]], Num(0), count)

\* allVerses.slice(-count)
VerseLast(count, allVerses) == slice(allVerses, Negate(count), undefined)

\* Seeded fault: the interval excludes its upper bound, v.verse < end.
VerseInterval_HalfOpen(start, end, allVerses) ==
    LET InRange(v) ==
            /\ Geq(Num(v.verse), start)
            /\ Leq(Num(v.verse), end)
            /\ ~StrictEq(Num(v.verse), end)
    IN  SelectSeq(allVerses, InRange)

\* allVerses.filter(v => v.verse >= start && v.verse <= end)
VerseInterval(start, end, allVerses) ==
    LET InRange(v) == Geq(Num(v.verse), start) /\ Leq(Num(v.verse), end)
    IN  SelectSeq(allVerses, InRange)

\* Seeded fault: the single position is compared with >= instead of ===.
VerseSingle_AtLeast(verseNum, allVerses) ==
    LET Same(v) == Geq(Num(v.verse), verseNum)
    IN  SelectSeq(allVerses, Same)

\* allVerses.filter(v => v.verse === verseNum)
VerseSingle(verseNum, allVerses) ==
    LET Same(v) == StrictEq(Num(v.verse), verseNum)
    IN  SelectSeq(allVerses, Same)

\* The relative-window branch returns only for "first" and "last"; any
\* other position falls through to the code below the if.
IsRelativeWindow(rangeStr) ==
    /\ includes(rangeStr, <<":">>)
    /\ Elem(split(rangeStr, ":"), 1) \in {StrFirst, StrLast}

parseVerseRange(rangeStr, allVerses) ==
    IF IsRelativeWindow(rangeStr)
    THEN LET parts == split(rangeStr, ":")
             position == Elem(parts, 1)
             count == parseInt(Elem(parts, 2))
         IN  IF position = StrFirst
             THEN Return(VerseFirst(count, allVerses))
             ELSE Return(VerseLast(count, allVerses))
    ELSE IF includes(rangeStr, <<"-">>)
    THEN LET parts == split(rangeStr, "-")
             start == parseInt(Elem(parts, 1))
             end == parseInt(Elem(parts, 2))
         IN  Return(VerseInterval(start, end, allVerses))
    ELSE LET verseNum == parseInt(rangeStr)
         IN  IF ~isNaN(verseNum)
             THEN Return(VerseSingle(verseNum, allVerses))
             ELSE Throw("InvalidRangeFormat", rangeStr)

(***************************************************************************)
(* parseParagraphRange (src/unnamed/part_002:465-483).                      *)
(***************************************************************************)
\* paragraphs.map((p, i) => ({ paragraph: i + 1, text: p }))
ParagraphItems(paragraphs) ==
    [i \in 1..Len(paragraphs) |-> [paragraph |-> i, text |-> paragraphs[i]]]

ParagraphFirst(count, items) == slice(items, Num(0), count)

ParagraphLast(count, items) == slice(items, Negate(count), undefined)

\* Seeded fault: the paragraph interval excludes its upper bound.
ParagraphInterval_HalfOpen(start, end, items) ==
    LET InRange(i) ==
            /\ Geq(Num(i.paragraph), start)
            /\ Leq(Num(i.paragraph), end)
            /\ ~StrictEq(Num(i.paragraph), end)
    IN  SelectSeq(items, InRange)

ParagraphInterval(start, end, items) ==
    LET InRange(i) == Geq(Num(i.paragraph), start) /\ Leq(Num(i.paragraph), end)
    IN  SelectSeq(items, InRange)

ParagraphSingle(num, items) ==
    LET Same(i) == StrictEq(Num(i.paragraph), num)
    IN  SelectSeq(items, Same)

parseParagraphRange(rangeStr, paragraphs) ==
    LET items == ParagraphItems(paragraphs)
    IN  IF IsRelativeWindow(rangeStr)
        THEN LET parts == split(rangeStr, ":")
                 position == Elem(parts, 1)
                 count == parseInt(Elem(parts, 2))
             IN  IF position = StrFirst
                 THEN Return(ParagraphFirst(count, items))
                 ELSE Return(ParagraphLast(count, items))
        ELSE IF includes(rangeStr, <<"-">>)
        THEN LET parts == split(rangeStr, "-")
                 start == parseInt(Elem(parts, 1))
                 end == parseInt(Elem(parts, 2))
             IN  Return(ParagraphInterval(start, end, items))
        ELSE LET num == parseInt(rangeStr)
             IN  IF ~isNaN(num)
                 THEN Return(ParagraphSingle(num, items))
                 ELSE Throw("InvalidRangeFormat", rangeStr)

(***************************************************************************)
(* Inputs of the range resolver.                                            *)
(***************************************************************************)
DigitChar(d) ==
    CASE d = 0 -> "0" [] d = 1 -> "1" [] d = 2 -> "2" [] d = 3 -> "3"
      [] d = 4 -> "4" [] d = 5 -> "5" [] d = 6 -> "6" [] d = 7 -> "7"
      [] d = 8 -> "8" [] d = 9 -> "9"

\* Decimal numeral of k >= 0, and of any integer with a leading '-'.
RECURSIVE Dec(_)
Dec(k) == IF k < 10 THEN <<DigitChar(k)>> ELSE Dec(k \div 10) \o <<DigitChar(k % 10)>>
SDec(k) == IF k < 0 THEN <<"-">> \o Dec(0 - k) ELSE Dec(k)

\* Texts of verses and paragraphs.
Texts == {<<"A", "b">>, <<"b", "a">>}

\* What may stand in a numeric slot: a signed numeral, nothing, a word, a
\* numeral followed by a letter, a 0x numeral.
NumeralSlots == {SDec(k) : k \in (0 - MaxNum)..MaxNum}
UnsignedSlots == {Dec(k) : k \in 0..MaxNum}
GarbageSlots ==
    {<<>>, <<"x">>} \cup {Dec(k) \o <<"x">> : k \in 0..MaxNum}
        \cup {<<"0", "x">> \o Dec(k) : k \in 1..MaxNum}
Slots == NumeralSlots \cup GarbageSlots

\* What may stand before a ':'.
Heads == {StrFirst, StrLast, <<"m", "i", "d", "d", "l", "e">>} \cup UnsignedSlots

\* The range expressions the resolver is called with.
Exprs ==
    Slots
        \cup {a \o <<"-">> \o b : a \in Slots, b \in Slots}
        \cup {h \o <<":">> \o c : h \in Heads, c \in Slots}
        \cup {a \o <<"-">> \o b \o <<"-">> \o c :
                  a \in UnsignedSlots, b \in UnsignedSlots, c \in UnsignedSlots}
        \cup {a \o <<"-">> \o b \o <<":">> \o c :
                  a \in UnsignedSlots, b \in UnsignedSlots, c \in UnsignedSlots}

\* Verse lists as a chapter may hold them: any verse numbers, any texts.
VerseUnits == [verse : 1..(MaxUnits + 1), text : Texts]
VerseLists == UNION {[1..n -> VerseUnits] : n \in 0..MaxUnits}
\* Talk bodies: lists of paragraph texts.
ParagraphLists == UNION {[1..n -> Texts] : n \in 0..MaxUnits}

(***************************************************************************)
(* The loaded corpus (main, src/unnamed/part_002:75-146).                   *)
(***************************************************************************)
\* The collections main loads, in load order.
collections ==
    <<"book-of-mormon", "doctrine-and-covenants", "new-testament",
      "old-testament", "pearl-of-great-price">>

BookNames == <<"1 Nephi", "2 Nephi", "Jacob", "Enos", "Jarom">>
SessionNames == <<"1971-04", "1971-10", "1972-04", "1972-10">>
TalkTitles ==
    <<<<"F", "a", "i", "t", "h">>, <<"H", "o", "p", "e">>,
      <<"L", "o", "v", "e">>, <<"J", "o", "y">>>>
TalkSlugs == <<"faith", "hope", "love", "joy">>

\* Only the first collection has several books, only its first book several
\* chapters, only that book's first chapter several verses.
NumBooksIn(c) == IF c = 1 THEN MaxBooks ELSE 1
NumChaptersIn(c, b) == IF c = 1 /\ b = 1 THEN MaxChapters ELSE 1
NumVersesIn(c, b, ch) == IF c = 1 /\ b = 1 /\ ch = 1 THEN MaxUnits ELSE 1

VerseSlots ==
    {<<c, b, ch, v>> \in
         (1..NumCollections) \X (1..MaxBooks) \X (1..MaxChapters) \X (1..MaxUnits) :
         b <= NumBooksIn(c) /\ ch <= NumChaptersIn(c, b) /\ v <= NumVersesIn(c, b, ch)}

\* scriptureData with the verse texts given by f: one entry per loaded
\* collection file, each { books: [{ book, chapters: [{ chapter, verses:
\* [{ verse, reference, text }] }] }] }.
MakeScripture(f) ==
    [c \in 1..NumCollections |->
        [collection |-> collections[c],
         books |->
            [b \in 1..NumBooksIn(c) |->
                [book |-> BookNames[b],
                 chapters |->
                    [ch \in 1..NumChaptersIn(c, b) |->
                        [chapter |-> ch,
                         verses |->
                            [v \in 1..NumVersesIn(c, b, ch) |->
                                [verse |-> v,
                                 reference |-> <<BookNames[b], ch, v>>,
                                 text |-> f[<<c, b, ch, v>>]]]]]]]]]

ScriptureCorpora == {MakeScripture(f) : f \in [VerseSlots -> Texts]}
DefaultScripture == MakeScripture([x \in VerseSlots |-> <<"b", "a">>])

\* Only the first session has several talks, only its first talk several
\* paragraphs.
NumTalksIn(s) == IF s = 1 THEN MaxTalks ELSE 1
NumParagraphsIn(s, t) == IF s = 1 /\ t = 1 THEN MaxUnits ELSE 1

ParagraphSlots ==
    {<<s, t, i>> \in (1..NumSessions) \X (1..MaxTalks) \X (1..MaxUnits) :
         t <= NumTalksIn(s) /\ i <= NumParagraphsIn(s, t)}

TalkSlots == {<<s, t>> \in (1..NumSessions) \X (1..MaxTalks) : t <= NumTalksIn(s)}

\* The talk loaded from file t of session directory s.
MakeTalk(f, s, t) ==
    [session |-> SessionNames[s],
     slug |-> TalkSlugs[t],
     title |-> TalkTitles[t],
     speaker |-> "speaker",
     body |-> [i \in 1..NumParagraphsIn(s, t) |-> f[<<s, t, i>>]]]

\* allTalks holds the talks in load order: session by session, file by file.
RECURSIVE TalksFrom(_, _, _)
TalksFrom(f, s, t) ==
    IF s > NumSessions THEN <<>>
    ELSE IF t > NumTalksIn(s) THEN TalksFrom(f, s + 1, 1)
    ELSE <<MakeTalk(f, s, t)>> \o TalksFrom(f, s, t + 1)

\* conferenceData with the paragraph texts given by f.
MakeConference(f) ==
    [sessions |->
        [s \in 1..NumSessions |->
            [session |-> SessionNames[s],
             talks |-> [t \in 1..NumTalksIn(s) |-> MakeTalk(f, s, t)]]],
     allTalks |-> TalksFrom(f, 1, 1)]

ConferenceCorpora == {MakeConference(f) : f \in [ParagraphSlots -> Texts]}
DefaultConference == MakeConference([x \in ParagraphSlots |-> <<"b", "a">>])

(***************************************************************************)
(* State.                                                                   *)
(***************************************************************************)
VARIABLES
    pc,             \* position of the call in flight
    callee,         \* the function called
    rangeStr,       \* argument: the range expression
    allVerses,      \* argument of parseVerseRange
    paragraphs,     \* argument of parseParagraphRange
    ret,            \* outcome of the call
    scriptureData,  \* loaded scripture collections, in key order
    conferenceData, \* loaded talks: sessions and allTalks
    args,           \* arguments of a search request
    iter,           \* loop positions of the search in flight
    matches,        \* matches collected so far
    examined,       \* history: every corpus element the search has looked at
    loader,         \* loop positions of main while it loads the corpus
    errorLog        \* what console.error has written

vars == <<pc, callee, rangeStr, allVerses, paragraphs, ret,
          scriptureData, conferenceData, args, iter, matches, examined,
          loader, errorLog>>

resolverVars == <<callee, rangeStr, allVerses, paragraphs>>
corpusVars == <<scriptureData, conferenceData>>
searchVars == <<args, iter, matches, examined>>
startupVars == <<loader, errorLog>>

NoRet == [ok |-> FALSE, value |-> <<>>, error |-> "pending", detail |-> <<>>]

\* An argument left out of a request: the empty string for string fields
\* and 0 for the chapter (both falsy, as undefined is), Omitted for
\* maxResults (which takes its default only when undefined) and for a
\* verse or paragraph number (so that a supplied 0 can be told apart).
Omitted == 0 - 1
NoArgs ==
    [query |-> <<>>, collection |-> "", book |-> "", chapter |-> 0,
     session |-> "", maxResults |-> Omitted]
NoIter == [coll |-> 0, b |-> 0, ch |-> 0, v |-> 0, talk |-> 0, i |-> 0]
NoLoader == [collection |-> 0, dirent |-> 0, file |-> 0]

(***************************************************************************)
(* The resolver applied to its inputs.                                      *)
(***************************************************************************)
InitResolve ==
    /\ pc = "call"
    /\ rangeStr \in Exprs
    /\ \/ callee = "parseVerseRange" /\ allVerses \in VerseLists /\ paragraphs = <<>>
       \/ callee = "parseParagraphRange" /\ paragraphs \in ParagraphLists /\ allVerses = <<>>
    /\ ret = NoRet
    /\ scriptureData = DefaultScripture
    /\ conferenceData = DefaultConference
    /\ args = NoArgs
    /\ iter = NoIter
    /\ matches = <<>>
    /\ examined = <<>>
    /\ loader = NoLoader
    /\ errorLog = <<>>

CallParseVerseRange ==
    /\ pc = "call"
    /\ callee = "parseVerseRange"
    /\ ret' = parseVerseRange(rangeStr, allVerses)
    /\ pc' = "done"
    /\ UNCHANGED <<startupVars, resolverVars, corpusVars, searchVars>>

CallParseParagraphRange ==
    /\ pc = "call"
    /\ callee = "parseParagraphRange"
    /\ ret' = parseParagraphRange(rangeStr, paragraphs)
    /\ pc' = "done"
    /\ UNCHANGED <<startupVars, resolverVars, corpusVars, searchVars>>

NextResolve == CallParseVerseRange \/ CallParseParagraphRange

SpecResolve == InitResolve /\ [][NextResolve]_vars

(***************************************************************************)
(* searchScriptures (src/unnamed/part_002:428-463) and                      *)
(* searchConferenceTalks (src/unnamed/part_002:578-603), one loop iteration *)
(* per step.                                                                *)
(***************************************************************************)
UpperLetters ==
    <<"A", "B", "C", "D", "E", "F", "G", "H", "I", "J", "K", "L", "M",
      "N", "O", "P", "Q", "R", "S", "T", "U", "V", "W", "X", "Y", "Z">>
LowerLetters ==
    <<"a", "b", "c", "d", "e", "f", "g", "h", "i", "j", "k", "l", "m",
      "n", "o", "p", "q", "r", "s", "t", "u", "v", "w", "x", "y", "z">>

\* String.prototype.toLowerCase, character by character.
LowerChar(c) ==
    IF \E k \in 1..26 : UpperLetters[k] = c
    THEN LowerLetters[CHOOSE k \in 1..26 : UpperLetters[k] = c]
    ELSE c
toLowerCase(str) == [k \in 1..Len(str) |-> LowerChar(str[k])]

\* JavaScript truthiness of a string argument and of a number argument.
TruthyStr(x) == x # ""
TruthyNum(x) == x # 0

\* const { maxResults = 25 } = args  and  const { maxResults = 20 } = args
DefaultScriptureMaxResults == 25
DefaultTalkMaxResults == 20
ScriptureMaxResults(a) ==
    IF a.maxResults = Omitted THEN DefaultScriptureMaxResults ELSE a.maxResults
TalkMaxResults(a) ==
    IF a.maxResults = Omitted THEN DefaultTalkMaxResults ELSE a.maxResults

\* Seeded fault: the query is used as typed, without toLowerCase.
Term_AsTyped(a) == a.query

\* const term = String(query).toLowerCase()
Term(a) == toLowerCase(a.query)

\* Seeded fault: the text must start with the term (startsWith for includes).
TextMatches_AtStart(text, term) ==
    /\ Len(term) <= Len(text)
    /\ SubSeq(toLowerCase(text), 1, Len(term)) = term

\* v.text.toLowerCase().includes(term)  /  para.toLowerCase().includes(term)
TextMatches(text, term) == includes(toLowerCase(text), term)

\* Seeded fault: the cap is tested with > instead of >=.
LimitReached_Late(found, maxResults) == Len(found) > maxResults

\* matches.length >= maxResults
LimitReached(found, maxResults) == Len(found) >= maxResults

\* Seeded fault: the count is taken from the list before the last push.
SearchResult_StaleCount(a, found) ==
    [query |-> a.query, count |-> Len(matches), results |-> found]

\* { query, count: matches.length, results: matches }
SearchResult(a, found) == [query |-> a.query, count |-> Len(found), results |-> found]

\* Object.keys(scriptureData): the collection names in insertion order.
Keys(data) == [c \in 1..Len(data) |-> data[c].collection]

\* scriptureData[coll]: the entry of that name, or none.
HasCollection(data, coll) == \E c \in 1..Len(data) : data[c].collection = coll
CollData(data, coll) == data[CHOOSE c \in 1..Len(data) : data[c].collection = coll]

\* const collectionsToSearch = collection ? [collection] : Object.keys(scriptureData)
CollectionsToSearch(a, data) ==
    IF TruthyStr(a.collection) THEN <<a.collection>> ELSE Keys(data)

\* The collection, book and chapter the scripture loops stand at.
CurColl == CollectionsToSearch(args, scriptureData)[iter.coll]
CurBooks == CollData(scriptureData, CurColl).books
CurBook == CurBooks[iter.b]
CurChapter == CurBook.chapters[iter.ch]
CurVerse == CurChapter.verses[iter.v]

\* The record pushed for a matching verse.
VerseMatch(coll, b, ch, v) ==
    [collection |-> coll, book |-> b.book, chapter |-> ch.chapter,
     verse |-> v.verse, reference |-> v.reference, text |-> v.text]

\* Seeded fault: the chapter scope is not validated.
SearchScriptures_NoChapterCheck ==
    /\ pc = "call"
    /\ callee = "searchScriptures"
    /\ IF TruthyStr(args.book) /\ ~TruthyStr(args.collection)
       THEN /\ ret' = Throw("InvalidScope", <<"book">>)
            /\ pc' = "done"
            /\ UNCHANGED iter
       ELSE /\ pc' = "forColl"
            /\ iter' = [iter EXCEPT !.coll = 1]
            /\ UNCHANGED ret
    /\ UNCHANGED <<startupVars, resolverVars, corpusVars, args, matches, examined>>

\* Entry: the two scope checks, then the loops start.
SearchScriptures ==
    /\ pc = "call"
    /\ callee = "searchScriptures"
    /\ IF TruthyStr(args.book) /\ ~TruthyStr(args.collection)
       THEN /\ ret' = Throw("InvalidScope", <<"book">>)
            /\ pc' = "done"
            /\ UNCHANGED iter
       ELSE IF TruthyNum(args.chapter)
                /\ ~(TruthyStr(args.collection) /\ TruthyStr(args.book))
       THEN /\ ret' = Throw("InvalidScope", <<"chapter">>)
            /\ pc' = "done"
            /\ UNCHANGED iter
       ELSE /\ pc' = "forColl"
            /\ iter' = [iter EXCEPT !.coll = 1]
            /\ UNCHANGED ret
    /\ UNCHANGED <<startupVars, resolverVars, corpusVars, args, matches, examined>>

\* for (const coll of collectionsToSearch) { if (!collData) continue; ... }
\* and the return after the loop.
ForColl ==
    /\ pc = "forColl"
    /\ IF iter.coll > Len(CollectionsToSearch(args, scriptureData))
       THEN /\ ret' = Return(SearchResult(args, matches))
            /\ pc' = "done"
            /\ UNCHANGED <<iter, examined>>
       ELSE /\ examined' = Append(examined, <<"collection", CurColl>>)
            /\ IF ~HasCollection(scriptureData, CurColl)
               THEN /\ iter' = [iter EXCEPT !.coll = @ + 1]
                    /\ UNCHANGED pc
               ELSE /\ iter' = [iter EXCEPT !.b = 1]
                    /\ pc' = "forBook"
            /\ UNCHANGED ret
    /\ UNCHANGED <<startupVars, resolverVars, corpusVars, args, matches>>

\* for (const b of books) { if (book && b.book !== book) continue; ... }
ForBook ==
    /\ pc = "forBook"
    /\ IF iter.b > Len(CurBooks)
       THEN /\ iter' = [iter EXCEPT !.coll = @ + 1]
            /\ pc' = "forColl"
            /\ UNCHANGED examined
       ELSE /\ examined' = Append(examined, <<"book", CurColl, CurBook.book>>)
            /\ IF TruthyStr(args.book) /\ CurBook.book # args.book
               THEN /\ iter' = [iter EXCEPT !.b = @ + 1]
                    /\ UNCHANGED pc
               ELSE /\ iter' = [iter EXCEPT !.ch = 1]
                    /\ pc' = "forChapter"
    /\ UNCHANGED <<startupVars, resolverVars, corpusVars, args, matches, ret>>

\* for (const ch of b.chapters) { if (chapter && ch.chapter !== chapter) continue; ... }
ForChapter ==
    /\ pc = "forChapter"
    /\ IF iter.ch > Len(CurBook.chapters)
       THEN /\ iter' = [iter EXCEPT !.b = @ + 1]
            /\ pc' = "forBook"
            /\ UNCHANGED examined
       ELSE /\ examined' =
                   Append(examined, <<"chapter", CurColl, CurBook.book, CurChapter.chapter>>)
            /\ IF TruthyNum(args.chapter) /\ CurChapter.chapter # args.chapter
               THEN /\ iter' = [iter EXCEPT !.ch = @ + 1]
                    /\ UNCHANGED pc
               ELSE /\ iter' = [iter EXCEPT !.v = 1]
                    /\ pc' = "forVerse"
    /\ UNCHANGED <<startupVars, resolverVars, corpusVars, args, matches, ret>>

\* for (const v of ch.verses) { if (match) { push; if (length >= maxResults) return } }
ForVerse ==
    /\ pc = "forVerse"
    /\ IF iter.v > Len(CurChapter.verses)
       THEN /\ iter' = [iter EXCEPT !.ch = @ + 1]
            /\ pc' = "forChapter"
            /\ UNCHANGED <<examined, matches, ret>>
       ELSE /\ examined' =
                   Append(examined,
                          <<"verse", CurColl, CurBook.book, CurChapter.chapter, CurVerse.verse>>)
            /\ IF TextMatches(CurVerse.text, Term(args))
               THEN LET found == Append(matches, VerseMatch(CurColl, CurBook, CurChapter, CurVerse))
                    IN  /\ matches' = found
                        /\ IF LimitReached(found, ScriptureMaxResults(args))
                           THEN /\ ret' = Return(SearchResult(args, found))
                                /\ pc' = "done"
                                /\ UNCHANGED iter
                           ELSE /\ iter' = [iter EXCEPT !.v = @ + 1]
                                /\ UNCHANGED <<pc, ret>>
               ELSE /\ iter' = [iter EXCEPT !.v = @ + 1]
                    /\ UNCHANGED <<pc, matches, ret>>
    /\ UNCHANGED <<startupVars, resolverVars, corpusVars, args>>

\* Seeded fault: the session filter is left out.
TalksToSearch_All(a, data) == data.allTalks

\* let talks = conferenceData.allTalks; if (session) talks = talks.filter(...)
TalksToSearch(a, data) ==
    LET InSession(t) == t.session = a.session
    IN  IF TruthyStr(a.session) THEN SelectSeq(data.allTalks, InSession) ELSE data.allTalks

CurTalk == TalksToSearch(args, conferenceData)[iter.talk]

\* The record pushed for a matching paragraph (i is the 0-based index).
ParagraphMatch(talk, i) ==
    [session |-> talk.session, title |-> talk.title, speaker |-> talk.speaker,
     paragraph |-> i + 1, text |-> talk.body[i + 1]]

\* Entry: there is no validation; the talk loop starts.
SearchConferenceTalks ==
    /\ pc = "call"
    /\ callee = "searchConferenceTalks"
    /\ pc' = "forTalk"
    /\ iter' = [iter EXCEPT !.talk = 1]
    /\ UNCHANGED <<startupVars, resolverVars, corpusVars, args, matches, examined, ret>>

\* for (const talk of talks) { for (let i = 0; ...) ... } and the return
\* after the loop.
ForTalk ==
    /\ pc = "forTalk"
    /\ IF iter.talk > Len(TalksToSearch(args, conferenceData))
       THEN /\ ret' = Return(SearchResult(args, matches))
            /\ pc' = "done"
            /\ UNCHANGED <<iter, examined>>
       ELSE /\ examined' = Append(examined, <<"talk", CurTalk.session, CurTalk.slug>>)
            /\ iter' = [iter EXCEPT !.i = 0]
            /\ pc' = "forParagraph"
            /\ UNCHANGED ret
    /\ UNCHANGED <<startupVars, resolverVars, corpusVars, args, matches>>

\* for (let i = 0; i < talk.body.length; i++) { if (match) { push; if
\* (length >= maxResults) break } }
ForParagraph ==
    /\ pc = "forParagraph"
    /\ IF ~(iter.i < Len(CurTalk.body))
       THEN /\ pc' = "afterParagraphs"
            /\ UNCHANGED <<iter, examined, matches>>
       ELSE /\ examined' =
                   Append(examined, <<"paragraph", CurTalk.session, CurTalk.slug, iter.i + 1>>)
            /\ IF TextMatches(CurTalk.body[iter.i + 1], Term(args))
               THEN LET found == Append(matches, ParagraphMatch(CurTalk, iter.i))
                    IN  /\ matches' = found
                        /\ IF LimitReached(found, TalkMaxResults(args))
                           THEN /\ pc' = "afterParagraphs"
                                /\ UNCHANGED iter
                           ELSE /\ iter' = [iter EXCEPT !.i = @ + 1]
                                /\ UNCHANGED pc
               ELSE /\ iter' = [iter EXCEPT !.i = @ + 1]
                    /\ UNCHANGED <<pc, matches>>
    /\ UNCHANGED <<startupVars, resolverVars, corpusVars, args, ret>>

\* Seeded fault: the outer break is missing, so the talk loop goes on after
\* the inner loop stopped at the cap.
AfterParagraphs_NoBreak ==
    /\ pc = "afterParagraphs"
    /\ iter' = [iter EXCEPT !.talk = @ + 1]
    /\ pc' = "forTalk"
    /\ UNCHANGED <<startupVars, resolverVars, corpusVars, args, matches, examined, ret>>

\* if (matches.length >= maxResults) break;  (the break leads to the return)
AfterParagraphs ==
    /\ pc = "afterParagraphs"
    /\ IF LimitReached(matches, TalkMaxResults(args))
       THEN /\ ret' = Return(SearchResult(args, matches))
            /\ pc' = "done"
            /\ UNCHANGED iter
       ELSE /\ iter' = [iter EXCEPT !.talk = @ + 1]
            /\ pc' = "forTalk"
            /\ UNCHANGED ret
    /\ UNCHANGED <<startupVars, resolverVars, corpusVars, args, matches, examined>>

\* The search requests.
Queries == {<<"a", "B">>, <<"a", "b">>, <<"b">>}
Limits == (1..MaxLimit) \cup {Omitted}
CollectionArgs == {""} \cup {collections[c] : c \in 1..NumCollections} \cup {"apocrypha"}
BookArgs == {""} \cup {BookNames[b] : b \in 1..MaxBooks}
ChapterArgs == 0..MaxChapters
SessionArgs == {""} \cup {SessionNames[s] : s \in 1..NumSessions} \cup {"1830-04"}

ScriptureSearchArgs ==
    {[query |-> q, collection |-> c, book |-> b, chapter |-> ch,
      session |-> "", maxResults |-> m] :
         q \in Queries, c \in CollectionArgs, b \in BookArgs, ch \in ChapterArgs, m \in Limits}

TalkSearchArgs ==
    {[query |-> q, collection |-> "", book |-> "", chapter |-> 0,
      session |-> se, maxResults |-> m] :
         q \in Queries, se \in SessionArgs, m \in Limits}

InitSearch ==
    /\ pc = "call"
    /\ \/ /\ callee = "searchScriptures"
          /\ scriptureData \in ScriptureCorpora
          /\ conferenceData = DefaultConference
          /\ args \in ScriptureSearchArgs
       \/ /\ callee = "searchConferenceTalks"
          /\ scriptureData = DefaultScripture
          /\ conferenceData \in ConferenceCorpora
          /\ args \in TalkSearchArgs
    /\ rangeStr = <<>>
    /\ allVerses = <<>>
    /\ paragraphs = <<>>
    /\ ret = NoRet
    /\ iter = NoIter
    /\ matches = <<>>
    /\ examined = <<>>
    /\ loader = NoLoader
    /\ errorLog = <<>>

NextSearch ==
    \/ SearchScriptures
    \/ ForColl
    \/ ForBook
    \/ ForChapter
    \/ ForVerse
    \/ SearchConferenceTalks
    \/ ForTalk
    \/ ForParagraph
    \/ AfterParagraphs

SpecSearch == InitSearch /\ [][NextSearch]_vars

(***************************************************************************)
(* The lookup tools: getBookInfo, getScriptureText, listConferenceTalks and *)
(* getConferenceTalk (src/unnamed/part_002:348-426, 485-576).               *)
(***************************************************************************)
\* An argument is falsy when it is left out or is 0.
TruthyArg(x) == x # Omitted /\ x # 0

\* A string argument held as characters is falsy when it is empty.
TruthyChars(s) == Len(s) > 0

\* arr.find(pred): the sequence of hits is computed with SelectSeq, find
\* yields its first element or nothing.
Found(hits) == IF Len(hits) = 0 THEN <<>> ELSE <<Head(hits)>>

\* scriptureData[collection]?.books.find(b => b.book === book)
FindBook(data, collection, book) ==
    IF ~HasCollection(data, collection) THEN <<>>
    ELSE LET IsBook(b) == b.book = book
         IN  Found(SelectSeq(CollData(data, collection).books, IsBook))

\* bookData.chapters.map(c => ({ chapter: c.chapter, verses: c.verses.length }))
ChapterInfo(bookData) ==
    [k \in 1..Len(bookData.chapters) |->
        [chapter |-> bookData.chapters[k].chapter,
         verses |-> Len(bookData.chapters[k].verses)]]

getBookInfo(a, data) ==
    LET bookData == FindBook(data, a.collection, a.book)
    IN  IF bookData = <<>>
        THEN Throw("NotFound", [what |-> "Book", book |-> a.book, collection |-> a.collection])
        ELSE Return([book |-> bookData[1].book,
                     chapters |-> Len(ChapterInfo(bookData[1])),
                     chapter_details |-> ChapterInfo(bookData[1])])

\* bookData.chapters.find(c => c.chapter === chapter)
FindChapter(bookData, chapter) ==
    LET IsChapter(c) == c.chapter = chapter
    IN  Found(SelectSeq(bookData.chapters, IsChapter))

\* chapterData.verses.find(v => v.verse === verse)
FindVerse(chapterData, verse) ==
    LET IsVerse(v) == v.verse = verse
    IN  Found(SelectSeq(chapterData.verses, IsVerse))

\* The three modes of getScriptureText once the chapter is found.
ScriptureTextOf(a, chapterData) ==
    IF TruthyArg(a.verse)
    THEN IF FindVerse(chapterData, a.verse) = <<>>
         THEN Throw("NotFound", [what |-> "Verse", verse |-> a.verse, book |-> a.book,
                                 chapter |-> a.chapter])
         ELSE Return(FindVerse(chapterData, a.verse)[1])
    ELSE IF TruthyChars(a.verseRange)
    THEN parseVerseRange(a.verseRange, chapterData.verses)
    ELSE Return(chapterData)

getScriptureText(a, data) ==
    LET bookData == FindBook(data, a.collection, a.book)
    IN  IF bookData = <<>>
        THEN Throw("NotFound", [what |-> "Book", book |-> a.book, collection |-> a.collection])
        ELSE IF FindChapter(bookData[1], a.chapter) = <<>>
        THEN Throw("NotFound", [what |-> "Chapter", chapter |-> a.chapter, book |-> a.book])
        ELSE ScriptureTextOf(a, FindChapter(bookData[1], a.chapter)[1])

\* conferenceData.sessions[session]: the talk list under that key, or none.
HasSession(data, session) ==
    \E s \in 1..Len(data.sessions) : data.sessions[s].session = session
SessionTalks(data, session) ==
    data.sessions[CHOOSE s \in 1..Len(data.sessions) :
                      data.sessions[s].session = session].talks

\* Object.keys(conferenceData.sessions).sort(): session keys are compared
\* as strings; SessionNames lists the keys in ascending order.
SessionRank(name) == CHOOSE r \in 1..Len(SessionNames) : SessionNames[r] = name
RECURSIVE SortedKeys(_, _)
SortedKeys(data, r) ==
    IF r > Len(SessionNames) THEN <<>>
    ELSE (IF HasSession(data, SessionNames[r]) THEN <<SessionNames[r]>> ELSE <<>>)
         \o SortedKeys(data, r + 1)

\* talks.map(t => ({ title: t.title, speaker: t.speaker, slug: t.slug }))
TalkSummaries(talks) ==
    [k \in 1..Len(talks) |->
        [title |-> talks[k].title, speaker |-> talks[k].speaker, slug |-> talks[k].slug]]

\* Seeded fault: the talk list is reversed in place before it is listed.
SessionsAfterListing_Reversed(a, data) ==
    IF TruthyStr(a.session) /\ HasSession(data, a.session)
    THEN [s \in 1..Len(data.sessions) |->
            IF data.sessions[s].session = a.session
            THEN [data.sessions[s] EXCEPT
                     !.talks = [k \in 1..Len(@) |-> @[Len(@) + 1 - k]]]
            ELSE data.sessions[s]]
    ELSE data.sessions

\* conferenceData.sessions after listConferenceTalks: map and sort work on
\* copies, the index is left as it was.
SessionsAfterListing(a, data) == data.sessions

listConferenceTalks(a, data) ==
    IF TruthyStr(a.session)
    THEN IF ~HasSession(data, a.session)
         THEN Throw("NotFound", [what |-> "Session", session |-> a.session])
         ELSE Return([session |-> a.session,
                      talk_count |-> Len(SessionTalks(data, a.session)),
                      talks |-> TalkSummaries(SessionTalks(data, a.session))])
    ELSE LET keys == SortedKeys(data, 1)
         IN  Return([sessions |->
                        [k \in 1..Len(keys) |->
                            [session |-> keys[k],
                             talks |-> Len(SessionTalks(data, keys[k]))]]])

\* The characters normalize treats specially.  The two curly double quotes
\* are written as the tokens "ldquo" and "rdquo".
QuoteChars == {"ldquo", "rdquo", "\"", "'"}
WhiteChars == {" ", "\t", "\n"}
DigitChars == {"0", "1", "2", "3", "4", "5", "6", "7", "8", "9"}
KeptChars ==
    {LowerLetters[k] : k \in 1..26} \cup DigitChars \cup {"\""} \cup WhiteChars

\* s.replace(/[class]+/g, ' '): every maximal run of marked characters
\* becomes one space.
RECURSIVE ReplaceRuns(_, _, _)
ReplaceRuns(s, marked, k) ==
    IF k > Len(s) THEN <<>>
    ELSE IF marked[k]
    THEN (IF k > 1 /\ marked[k - 1] THEN <<>> ELSE <<" ">>)
         \o ReplaceRuns(s, marked, k + 1)
    ELSE <<s[k]>> \o ReplaceRuns(s, marked, k + 1)

\* s.trim()
RECURSIVE trim(_)
trim(s) ==
    IF Len(s) > 0 /\ s[1] \in WhiteChars THEN trim(Tail(s))
    ELSE IF Len(s) > 0 /\ s[Len(s)] \in WhiteChars THEN trim(SubSeq(s, 1, Len(s) - 1))
    ELSE s

\* normalize: lower case, every quote to '"', punctuation runs to a space,
\* white space runs to a space, trimmed.
normalize(s) ==
    LET lower == toLowerCase(s)
        quoted == [k \in 1..Len(lower) |->
                      IF lower[k] \in QuoteChars THEN "\"" ELSE lower[k]]
        unpunct == ReplaceRuns(quoted, [k \in 1..Len(quoted) |-> quoted[k] \notin KeptChars], 1)
        collapsed == ReplaceRuns(unpunct, [k \in 1..Len(unpunct) |-> unpunct[k] \in WhiteChars], 1)
    IN  trim(collapsed)

\* The four tiers of the talk lookup, each a talks.find.
FindBySlug(talks, slug) ==
    LET Hit(t) == t.slug = slug IN Found(SelectSeq(talks, Hit))
FindByTitle(talks, title) ==
    LET Hit(t) == t.title = title IN Found(SelectSeq(talks, Hit))
FindByNormalizedTitle(talks, title) ==
    LET Hit(t) == normalize(t.title) = normalize(title) IN Found(SelectSeq(talks, Hit))
\* Seeded fault: a title that normalizes to nothing is contained in no title.
FindByContainedTitle_NonEmpty(talks, title) ==
    LET Hit(t) == /\ Len(normalize(title)) > 0
                  /\ includes(normalize(t.title), normalize(title))
    IN  Found(SelectSeq(talks, Hit))
FindByContainedTitle(talks, title) ==
    LET Hit(t) == includes(normalize(t.title), normalize(title))
    IN  Found(SelectSeq(talks, Hit))

\* Seeded fault: the normalized comparison is tried before the exact title.
FindTalkByTitle_FuzzyFirst(talks, title) ==
    IF FindByNormalizedTitle(talks, title) # <<>> THEN FindByNormalizedTitle(talks, title)
    ELSE IF FindByTitle(talks, title) # <<>> THEN FindByTitle(talks, title)
    ELSE FindByContainedTitle(talks, title)

\* if (!talk && title) { exact title; normalized equality; contained }
FindTalkByTitle(talks, title) ==
    IF FindByTitle(talks, title) # <<>> THEN FindByTitle(talks, title)
    ELSE IF FindByNormalizedTitle(talks, title) # <<>>
    THEN FindByNormalizedTitle(talks, title)
    ELSE FindByContainedTitle(talks, title)

\* let talk; if (slug) ...; if (!talk && title) ...
FindTalk(talks, a) ==
    LET bySlug == IF TruthyStr(a.slug) THEN FindBySlug(talks, a.slug) ELSE <<>>
    IN  IF bySlug # <<>> THEN bySlug
        ELSE IF TruthyChars(a.title) THEN FindTalkByTitle(talks, a.title)
        ELSE <<>>

\* The three modes of getConferenceTalk once the talk is found.
TalkTextOf(a, talk) ==
    IF TruthyArg(a.paragraph)
    THEN IF a.paragraph < 1 \/ a.paragraph > Len(talk.body)
         THEN Throw("OutOfRange", [what |-> "Paragraph", from |-> 1, to |-> Len(talk.body)])
         ELSE Return([session |-> talk.session, title |-> talk.title,
                      speaker |-> talk.speaker, paragraph |-> a.paragraph,
                      text |-> talk.body[a.paragraph]])
    ELSE IF TruthyChars(a.paragraphRange)
    THEN LET selection == parseParagraphRange(a.paragraphRange, talk.body)
         IN  IF ~selection.ok THEN selection
             ELSE Return([session |-> talk.session, title |-> talk.title,
                          speaker |-> talk.speaker, paragraphs |-> selection.value])
    ELSE Return([session |-> talk.session, title |-> talk.title,
                 speaker |-> talk.speaker, paragraphs |-> ParagraphItems(talk.body)])

getConferenceTalk(a, data) ==
    IF ~HasSession(data, a.session)
    THEN Throw("NotFound", [what |-> "Session", session |-> a.session])
    ELSE LET talk == FindTalk(SessionTalks(data, a.session), a)
         IN  IF talk = <<>>
             THEN Throw("NotFound", [what |-> "Talk", session |-> a.session, title |-> a.title,
                                    slug |-> a.slug])
             ELSE TalkTextOf(a, talk[1])

(***************************************************************************)
(* The serving process after startup: the CallTool handler                  *)
(* (src/unnamed/part_002:323-342) dispatches one request at a time to the   *)
(* six tools over the loaded corpus.                                        *)
(***************************************************************************)
\* Verse and paragraph texts that tell neighbouring units apart.
TextAt(k) == IF k % 2 = 1 THEN <<"A", "b">> ELSE <<"b", "a">>
ServedScripture == MakeScripture([x \in VerseSlots |-> TextAt(x[4])])

\* Talk titles of the served corpus and their speakers.
ServedTitles ==
    {<<"J", "o", "y">>,
     <<"j", "o", "y", "!">>,
     <<"O", " ", "J", "o", "y">>,
     <<"ldquo", "J", "o", "y", "rdquo">>}
TalkSpeakers == <<"Ezra", "Mark", "Luke", "John">>

\* The talks of the first session carry the titles given by g.
ServedTalk(g, s, t) ==
    [MakeTalk([x \in ParagraphSlots |-> TextAt(x[3])], s, t) EXCEPT
        !.title = IF s = 1 THEN g[t] ELSE @,
        !.speaker = TalkSpeakers[t]]
RECURSIVE ServedTalksFrom(_, _, _)
ServedTalksFrom(g, s, t) ==
    IF s > NumSessions THEN <<>>
    ELSE IF t > NumTalksIn(s) THEN ServedTalksFrom(g, s + 1, 1)
    ELSE <<ServedTalk(g, s, t)>> \o ServedTalksFrom(g, s, t + 1)
ServedConference(g) ==
    [sessions |->
        [s \in 1..NumSessions |->
            [session |-> SessionNames[s],
             talks |-> [t \in 1..NumTalksIn(s) |-> ServedTalk(g, s, t)]]],
     allTalks |-> ServedTalksFrom(g, 1, 1)]
ServedConferences == {ServedConference(g) : g \in [1..MaxTalks -> ServedTitles]}

\* Arguments of the lookup tools.
VerseArgs == {Omitted} \cup (0..(MaxUnits + 1))
ParagraphArgs == {Omitted, 0 - 2} \cup (0..(MaxUnits + 1))
RangeArgs ==
    {<<>>, <<"1", "-", "2">>, <<"l", "a", "s", "t", ":", "1">>, <<"x">>}
SlugArgs == {""} \cup {TalkSlugs[t] : t \in 1..MaxTalks} \cup {"zeal"}
TitleArgs ==
    {<<>>,
     <<"J", "o", "y">>,
     <<"J", "O", "Y">>,
     <<"o", "y">>,
     <<"O", " ", " ", "j", "o", "y">>,
     <<"'", "j", "o", "y", "'">>,
     <<"!">>,
     <<"Z", "e", "a", "l">>}
BookInfoArgs == [collection : CollectionArgs, book : BookArgs]
ScriptureTextArgs ==
    [collection : CollectionArgs, book : BookArgs, chapter : ChapterArgs,
     verse : VerseArgs, verseRange : RangeArgs]
ListTalksArgs == [session : SessionArgs]
TalkArgs ==
    [session : SessionArgs, slug : SlugArgs, title : TitleArgs,
     paragraph : ParagraphArgs, paragraphRange : RangeArgs]

\* The function the handler's switch calls for each tool name.
ToolFunction ==
    [get_book_info |-> "getBookInfo",
     get_scripture_text |-> "getScriptureText",
     search_scriptures |-> "searchScriptures",
     list_conference_talks |-> "listConferenceTalks",
     get_conference_talk |-> "getConferenceTalk",
     search_conference_talks |-> "searchConferenceTalks",
     get_weather |-> "default"]
ToolNames == DOMAIN ToolFunction
ToolArgs(name) ==
    CASE name = "get_book_info" -> BookInfoArgs
      [] name = "get_scripture_text" -> ScriptureTextArgs
      [] name = "search_scriptures" -> ScriptureSearchArgs
      [] name = "list_conference_talks" -> ListTalksArgs
      [] name = "get_conference_talk" -> TalkArgs
      [] name = "search_conference_talks" -> TalkSearchArgs
      [] OTHER -> {NoArgs}

InitServer ==
    /\ pc = "idle"
    /\ callee = "none"
    /\ scriptureData = ServedScripture
    /\ conferenceData \in ServedConferences
    /\ args = NoArgs
    /\ rangeStr = <<>>
    /\ allVerses = <<>>
    /\ paragraphs = <<>>
    /\ ret = NoRet
    /\ iter = NoIter
    /\ matches = <<>>
    /\ examined = <<>>
    /\ loader = NoLoader
    /\ errorLog = <<>>

\* A request arrives: const { name, arguments: args } = request.params
CallTool ==
    /\ pc = "idle"
    /\ \E name \in ToolNames :
          /\ callee' = ToolFunction[name]
          /\ args' \in ToolArgs(name)
    /\ pc' = "call"
    /\ ret' = NoRet
    /\ UNCHANGED <<startupVars, rangeStr, allVerses, paragraphs, corpusVars,
                   iter, matches, examined>>

GetBookInfo ==
    /\ pc = "call"
    /\ callee = "getBookInfo"
    /\ ret' = getBookInfo(args, scriptureData)
    /\ pc' = "done"
    /\ UNCHANGED <<startupVars, resolverVars, corpusVars, searchVars>>

GetScriptureText ==
    /\ pc = "call"
    /\ callee = "getScriptureText"
    /\ ret' = getScriptureText(args, scriptureData)
    /\ pc' = "done"
    /\ UNCHANGED <<startupVars, resolverVars, corpusVars, searchVars>>

ListConferenceTalks ==
    /\ pc = "call"
    /\ callee = "listConferenceTalks"
    /\ ret' = listConferenceTalks(args, conferenceData)
    /\ conferenceData' =
           [conferenceData EXCEPT !.sessions = SessionsAfterListing(args, conferenceData)]
    /\ pc' = "done"
    /\ UNCHANGED <<startupVars, resolverVars, scriptureData, searchVars>>

GetConferenceTalk ==
    /\ pc = "call"
    /\ callee = "getConferenceTalk"
    /\ ret' = getConferenceTalk(args, conferenceData)
    /\ pc' = "done"
    /\ UNCHANGED <<startupVars, resolverVars, corpusVars, searchVars>>

\* default: throw new Error(`Unknown tool: ${name}`)
UnknownTool ==
    /\ pc = "call"
    /\ callee = "default"
    /\ ret' = Throw("UnknownTool", <<>>)
    /\ pc' = "done"
    /\ UNCHANGED <<startupVars, resolverVars, corpusVars, searchVars>>

\* The handler's promise settles; the response or the error goes back to
\* the client and the locals of the call are gone.
Respond ==
    /\ pc = "done"
    /\ pc' = "idle"
    /\ callee' = "none"
    /\ args' = NoArgs
    /\ iter' = NoIter
    /\ matches' = <<>>
    /\ examined' = <<>>
    /\ ret' = NoRet
    /\ UNCHANGED <<startupVars, rangeStr, allVerses, paragraphs, corpusVars>>

NextServer ==
    \/ CallTool
    \/ GetBookInfo
    \/ GetScriptureText
    \/ ListConferenceTalks
    \/ GetConferenceTalk
    \/ UnknownTool
    \/ Respond
    \/ NextSearch

SpecServer == InitServer /\ [][NextServer]_vars

(***************************************************************************)
(* Startup: main loads the scripture collections and the conference talks   *)
(* from disk, then connects the transport (src/unnamed/part_002:71-146,     *)
(* 344-345, 605-610).  What the disk answers to each read is chosen at the  *)
(* read.                                                                    *)
(***************************************************************************)
\* The texts every file on disk holds.
DiskTexts == [x \in ParagraphSlots |-> TextAt(x[3])]

\* What reading one scripture file can come to: found next to the compiled
\* code, found in src after the first read failed, found nowhere, or found
\* but not JSON.
CollectionReads == {"dist", "src", "ENOENT", "SyntaxError"}

\* What an entry of the talk directory can be, and what reading it gives.
DirentKinds == {"directory", "file", "unreadable"}

\* What one file of a session directory can be: a talk, a file that is not
\* .json, an unreadable file, a file that is not JSON, JSON without a body
\* array.
TalkFileReads == {"talk", "other", "EACCES", "SyntaxError", "nobody"}

ErrorsOfRead == {"ENOENT", "EACCES", "SyntaxError"}

\* Seeded fault: the session's list is replaced by the new talk.
PushToSession_Replace(sessions, talk) ==
    IF \E s \in 1..Len(sessions) : sessions[s].session = talk.session
    THEN [s \in 1..Len(sessions) |->
            IF sessions[s].session = talk.session
            THEN [sessions[s] EXCEPT !.talks = <<talk>>]
            ELSE sessions[s]]
    ELSE Append(sessions, [session |-> talk.session, talks |-> <<talk>>])

\* conferenceData.sessions[session] ||= []; conferenceData.sessions[session].push(talk)
PushToSession(sessions, talk) ==
    IF \E s \in 1..Len(sessions) : sessions[s].session = talk.session
    THEN [s \in 1..Len(sessions) |->
            IF sessions[s].session = talk.session
            THEN [sessions[s] EXCEPT !.talks = Append(@, talk)]
            ELSE sessions[s]]
    ELSE Append(sessions, [session |-> talk.session, talks |-> <<talk>>])

InitStartup ==
    /\ pc = "loadScripture"
    /\ loader = [collection |-> 1, dirent |-> 0, file |-> 0]
    /\ errorLog = <<>>
    /\ scriptureData = <<>>
    /\ conferenceData = [sessions |-> <<>>, allTalks |-> <<>>]
    /\ callee = "main"
    /\ rangeStr = <<>>
    /\ allVerses = <<>>
    /\ paragraphs = <<>>
    /\ ret = NoRet
    /\ args = NoArgs
    /\ iter = NoIter
    /\ matches = <<>>
    /\ examined = <<>>

\* One iteration of for (const collection of collections): the file is read
\* and parsed, or the error is logged and rethrown, main rejects and
\* main().catch logs it and exits with status 1.
LoadCollection ==
    /\ pc = "loadScripture"
    /\ \E read \in CollectionReads :
          IF read \in ErrorsOfRead
          THEN /\ errorLog' = errorLog \o
                       <<[what |-> "collection", name |-> collections[loader.collection],
                          file |-> "", error |-> read],
                         [what |-> "Server error", name |-> "", file |-> "", error |-> read]>>
               /\ pc' = "exited"
               /\ UNCHANGED <<loader, scriptureData>>
          ELSE /\ scriptureData' = Append(scriptureData, ServedScripture[loader.collection])
               /\ IF loader.collection = NumCollections
                  THEN pc' = "readTalkDir" /\ UNCHANGED loader
                  ELSE /\ pc' = "loadScripture"
                       /\ loader' = [loader EXCEPT !.collection = @ + 1]
               /\ UNCHANGED errorLog
    /\ UNCHANGED <<resolverVars, conferenceData, searchVars, ret>>

\* fs.access with the fallback to src, then fs.readdir(baseDir): a failure
\* is caught by the outer catch, which logs it; main goes on.
ReadTalkDir ==
    /\ pc = "readTalkDir"
    /\ \E read \in {"ok", "ENOENT"} :
          IF read = "ok"
          THEN /\ pc' = "forDirent"
               /\ loader' = [loader EXCEPT !.dirent = 1]
               /\ UNCHANGED errorLog
          ELSE /\ pc' = "connect"
               /\ errorLog' = Append(errorLog,
                       [what |-> "talks", name |-> "", file |-> "", error |-> read])
               /\ UNCHANGED loader
    /\ UNCHANGED <<resolverVars, corpusVars, searchVars, ret>>

\* for (const dirent of sessionDirs): an entry that is no directory is
\* skipped; fs.readdir(sessionPath) lists the files or throws to the outer
\* catch, which ends the loading of talks.
ForDirent ==
    /\ pc = "forDirent"
    /\ IF loader.dirent > NumSessions
       THEN /\ pc' = "connect"
            /\ UNCHANGED <<loader, errorLog>>
       ELSE \E kind \in DirentKinds :
               CASE kind = "file" ->
                        /\ loader' = [loader EXCEPT !.dirent = @ + 1]
                        /\ UNCHANGED <<pc, errorLog>>
                 [] kind = "unreadable" ->
                        /\ pc' = "connect"
                        /\ errorLog' = Append(errorLog,
                                [what |-> "talks", name |-> SessionNames[loader.dirent],
                                 file |-> "", error |-> "EACCES"])
                        /\ UNCHANGED loader
                 [] kind = "directory" ->
                        /\ pc' = "forFile"
                        /\ loader' = [loader EXCEPT !.file = 1]
                        /\ UNCHANGED errorLog
    /\ UNCHANGED <<resolverVars, corpusVars, searchVars, ret>>

\* const talk = { ...parsed, session, slug }: what JSON.parse gives for a
\* file that holds a talk, and for one that holds JSON without a body.
ParsedTalk(read, s, t) ==
    IF read = "nobody"
    THEN [session |-> SessionNames[s], slug |-> TalkSlugs[t],
          title |-> TalkTitles[t], speaker |-> "speaker"]
    ELSE MakeTalk(DiskTexts, s, t)

\* Array.isArray(talk.body)
HasArrayBody(talk) == "body" \in DOMAIN talk

\* for (const file of files): the body of the loop with its try / catch.
ForFile ==
    /\ pc = "forFile"
    /\ IF loader.file > NumTalksIn(loader.dirent)
       THEN /\ pc' = "forDirent"
            /\ loader' = [loader EXCEPT !.dirent = @ + 1, !.file = 0]
            /\ UNCHANGED <<errorLog, conferenceData>>
       ELSE /\ loader' = [loader EXCEPT !.file = @ + 1]
            /\ UNCHANGED pc
            /\ \E read \in TalkFileReads :
                  CASE read \in {"talk", "nobody"} ->
                           LET talk == ParsedTalk(read, loader.dirent, loader.file)
                           IN  /\ IF ~HasArrayBody(talk)
                                  THEN UNCHANGED conferenceData
                                  ELSE conferenceData' =
                                         [sessions |-> PushToSession(conferenceData.sessions, talk),
                                          allTalks |-> Append(conferenceData.allTalks, talk)]
                               /\ UNCHANGED errorLog
                    [] read \in ErrorsOfRead ->
                           /\ errorLog' = Append(errorLog,
                                   [what |-> "talk", name |-> SessionNames[loader.dirent],
                                    file |-> TalkSlugs[loader.file], error |-> read])
                           /\ UNCHANGED conferenceData
                    [] OTHER -> UNCHANGED <<errorLog, conferenceData>>
    /\ UNCHANGED <<resolverVars, scriptureData, searchVars, ret>>

\* Seeded fault: the transport is connected before the talks are loaded.
Connect_BeforeTalks ==
    /\ pc \in {"connect", "readTalkDir"}
    /\ pc' = "serving"
    /\ UNCHANGED <<startupVars, resolverVars, corpusVars, searchVars, ret>>

\* The handlers are registered and server.connect(transport) is awaited:
\* from here requests are served.
Connect ==
    /\ pc = "connect"
    /\ pc' = "serving"
    /\ UNCHANGED <<startupVars, resolverVars, corpusVars, searchVars, ret>>

\* A request read from the connected transport is handled; here one for
\* list_conference_talks, answered in one step.
HandleRequest ==
    /\ pc = "serving"
    /\ \E a \in ListTalksArgs :
          /\ args' = a
          /\ ret' = listConferenceTalks(a, conferenceData)
    /\ callee' = "listConferenceTalks"
    /\ UNCHANGED <<pc, startupVars, rangeStr, allVerses, paragraphs, corpusVars,
                   iter, matches, examined>>

NextStartup ==
    \/ LoadCollection
    \/ ReadTalkDir
    \/ ForDirent
    \/ ForFile
    \/ Connect
    \/ HandleRequest

SpecStartup == InitStartup /\ [][NextStartup]_vars

(***************************************************************************)
(* The resolver and the scripture search over units whose positions are not *)
(* 1..n: src/unnamed/part_002:40-69 and 428-463 read v.verse only to        *)
(* compare it with the numbers of the expression and to copy it.            *)
(***************************************************************************)
\* Ways a chapter's verse numbers can break the rule: all the same, falling,
\* or with gaps.
Renumberings == {"duplicated", "descending", "gapped"}
Renumbered(how, v) ==
    CASE how = "duplicated" -> 1
      [] how = "descending" -> MaxUnits + 1 - v
      [] OTHER -> 2 * v - 1

\* scriptureData whose chapters number their verses in that way.
RenumberedScripture(how) ==
    [c \in 1..NumCollections |->
        [collection |-> collections[c],
         books |->
            [b \in 1..NumBooksIn(c) |->
                [book |-> BookNames[b],
                 chapters |->
                    [ch \in 1..NumChaptersIn(c, b) |->
                        [chapter |-> ch,
                         verses |->
                            [v \in 1..NumVersesIn(c, b, ch) |->
                                [verse |-> Renumbered(how, v),
                                 reference |-> <<BookNames[b], ch, Renumbered(how, v)>>,
                                 text |-> TextAt(v)]]]]]]]]

\* Verse lists with some verse out of place.
IrregularLists ==
    {U \in VerseLists :
        /\ \A i \in 1..Len(U) : U[i].text = TextAt(i)
        /\ \E i \in 1..Len(U) : U[i].verse # i}

InitIrregular ==
    /\ pc = "call"
    /\ \/ /\ callee = "parseVerseRange"
          /\ rangeStr \in Exprs
          /\ allVerses \in IrregularLists
          /\ scriptureData = DefaultScripture
          /\ args = NoArgs
       \/ /\ callee = "searchScriptures"
          /\ rangeStr = <<>>
          /\ allVerses = <<>>
          /\ scriptureData \in {RenumberedScripture(how) : how \in Renumberings}
          /\ args \in ScriptureSearchArgs
    /\ conferenceData = DefaultConference
    /\ paragraphs = <<>>
    /\ ret = NoRet
    /\ iter = NoIter
    /\ matches = <<>>
    /\ examined = <<>>
    /\ loader = NoLoader
    /\ errorLog = <<>>

NextIrregular ==
    \/ CallParseVerseRange
    \/ SearchScriptures
    \/ ForColl
    \/ ForBook
    \/ ForChapter
    \/ ForVerse

SpecIrregular == InitIrregular /\ [][NextIrregular]_vars

(***************************************************************************)
(* The web-scraping revision's get_scripture (src/unnamed/part_002:         *)
(* 1049-1116).  Its parseVerseRange (910-939) is the code of lines 40-69.   *)
(* book, chapter and language only shape the URL; the page that comes back  *)
(* is the site's choice.                                                    *)
(***************************************************************************)
\* Object.keys(SCRIPTURE_COLLECTIONS)
SCRIPTURE_COLLECTIONS == {collections[c] : c \in 1..Len(collections)}

\* The .verse elements of a fetched chapter page, numbered from 1.
FetchedPages ==
    {[v \in 1..n |-> [verse |-> v, text |-> TextAt(v)]] : n \in 0..MaxUnits}

\* Thrown inside the try block and wrapped by its catch.
FetchError(cause) == Throw("ErrorFetchingScripture", [cause |-> cause])

\* The three modes of getScripture once the page is parsed.  In the range
\* mode the reference reads verses[0].verse, a TypeError on an empty list.
ScriptureOf(a, fetched) ==
    IF TruthyArg(a.verse)
    THEN IF FindVerse([verses |-> fetched], a.verse) = <<>>
         THEN FetchError("VerseNotFound")
         ELSE Return([reference |-> [collection |-> a.collection, first |-> a.verse,
                                     last |-> a.verse],
                      verse |-> a.verse,
                      text |-> FindVerse([verses |-> fetched], a.verse)[1].text])
    ELSE IF TruthyChars(a.verseRange)
    THEN LET verses == parseVerseRange(a.verseRange, fetched)
         IN  IF ~verses.ok THEN FetchError(verses.error)
             ELSE IF Len(verses.value) = 0 THEN FetchError("TypeError")
             ELSE Return([reference |-> [collection |-> a.collection,
                                         first |-> verses.value[1].verse,
                                         last |-> verses.value[Len(verses.value)].verse],
                          verses |-> verses.value])
    ELSE Return([reference |-> [collection |-> a.collection, first |-> 0, last |-> 0],
                 verses |-> fetched])

WebCollectionArgs == {"book-of-mormon", "apocrypha"}
WebScriptureArgs ==
    [collection : WebCollectionArgs, verse : VerseArgs,
     verseRange : {<<>>} \cup Exprs]

InitWeb ==
    /\ pc = "call"
    /\ callee = "getScripture"
    /\ args \in WebScriptureArgs
    /\ rangeStr = <<>>
    /\ allVerses = <<>>
    /\ paragraphs = <<>>
    /\ ret = NoRet
    /\ scriptureData = DefaultScripture
    /\ conferenceData = DefaultConference
    /\ iter = NoIter
    /\ matches = <<>>
    /\ examined = <<>>
    /\ loader = NoLoader
    /\ errorLog = <<>>

\* getScripture up to `await fetch(url)`.
GetScripture ==
    /\ pc = "call"
    /\ callee = "getScripture"
    /\ IF args.collection \notin SCRIPTURE_COLLECTIONS
       THEN /\ ret' = Throw("InvalidCollection", [collection |-> args.collection])
            /\ pc' = "done"
       ELSE /\ ret' = ret
            /\ pc' = "fetch"
    /\ UNCHANGED <<callee, rangeStr, allVerses, paragraphs, corpusVars, searchVars,
                   startupVars>>

\* The rest of getScripture, run when the response arrives.
OnResponse ==
    /\ pc = "fetch"
    /\ callee = "getScripture"
    /\ \E ok \in BOOLEAN, page \in FetchedPages :
          IF ~ok
          THEN /\ ret' = FetchError("FailedToFetch")
               /\ allVerses' = allVerses
          ELSE /\ allVerses' = page
               /\ ret' = ScriptureOf(args, page)
    /\ pc' = "done"
    /\ UNCHANGED <<callee, rangeStr, paragraphs, corpusVars, searchVars, startupVars>>

NextWeb == GetScripture \/ OnResponse

SpecWeb == InitWeb /\ [][NextWeb]_vars

(***************************************************************************)
(* The whole model: startup, the server, a resolver call or a search.       *)
(***************************************************************************)
Init == InitResolve \/ InitSearch \/ InitServer \/ InitStartup \/ InitIrregular
            \/ InitWeb
Next == NextResolve \/ NextServer \/ NextStartup \/ NextWeb
Spec == Init /\ [][Next]_vars

(***************************************************************************)
(* Vocabulary of the resolver's contract.                                   *)
(***************************************************************************)
\* The units the resolver selects from, and the position of a unit.
InputUnits ==
    IF callee = "parseVerseRange" THEN allVerses ELSE ParagraphItems(paragraphs)
PosOf(u) == IF callee = "parseVerseRange" THEN u.verse ELSE u.paragraph

\* Positions are 1..n in order; positions are pairwise distinct.
PositionsOneToN(U) == \A i \in 1..Len(U) : PosOf(U[i]) = i
UniquePositions(U) ==
    \A i \in 1..Len(U) : \A j \in 1..Len(U) : PosOf(U[i]) = PosOf(U[j]) => i = j

\* The units of U whose position lies in lo..hi, in the order of U.
RECURSIVE UnitsBetween(_, _, _)
UnitsBetween(U, lo, hi) ==
    IF Len(U) = 0 THEN <<>>
    ELSE (IF lo <= PosOf(U[1]) /\ PosOf(U[1]) <= hi THEN <<U[1]>> ELSE <<>>)
             \o UnitsBetween(Tail(U), lo, hi)

\* The first and the last m units of U.
Leading(U, m) == SubSeq(U, 1, m)
Trailing(U, m) == SubSeq(U, Len(U) - m + 1, Len(U))

FirstExpr(s) == StrFirst \o <<":">> \o s
LastExpr(s) == StrLast \o <<":">> \o s

\* The part of e before, and after, the first occurrence of character c.
BeforeFirst(e, c) == SubSeq(e, 1, IndexOf(e, c) - 1)
AfterFirst(e, c) == SubSeq(e, IndexOf(e, c) + 1, Len(e))

HasChar(e, c) == IndexOf(e, c) # 0
HasDecimalDigit(s) == \E i \in 1..Len(s) : IsDigit(s[i], 10)
AllDecimalDigits(s) == \A i \in 1..Len(s) : IsDigit(s[i], 10)

\* The numeric slots of an expression read by the three forms in priority
\* order: the count after the first ':', else both sides of the first '-',
\* else the whole expression.
NumericSlots(e) ==
    IF HasChar(e, ":") THEN {AfterFirst(e, ":")}
    ELSE IF HasChar(e, "-") THEN {BeforeFirst(e, "-"), AfterFirst(e, "-")}
    ELSE {e}

\* The expression is of a recognised form, as far as its head goes.
RecognisedHead(e) == HasChar(e, ":") => BeforeFirst(e, ":") \in {StrFirst, StrLast}

Failed == pc = "done" /\ ~ret.ok /\ ret.error = "InvalidRangeFormat"

(***************************************************************************)
(* Claims about the resolver, checked under SpecResolve.                    *)
(***************************************************************************)
\* C1: over units with positions 1..n, "first:k" with k >= 0 returns exactly
\* the first min(k, n) units, unchanged and in order.
C1_FirstReturnsLeadingUnits ==
    pc = "done" =>
        \A k \in 0..MaxNum :
            (rangeStr = FirstExpr(Dec(k)) /\ PositionsOneToN(InputUnits))
                => ret = Return(Leading(InputUnits, Min(k, Len(InputUnits))))

\* A "first:k" call with 0 < k < n has returned k units.
C1_Witness ==
    /\ pc = "done"
    /\ PositionsOneToN(InputUnits)
    /\ \E k \in 1..MaxNum :
           /\ rangeStr = FirstExpr(Dec(k))
           /\ k < Len(InputUnits)
           /\ ret.ok /\ Len(ret.value) = k

\* C2: over units with positions 1..n, "last:k" with k >= 0 returns exactly
\* the trailing min(k, n) units (the empty sequence for k = 0).
C2_LastReturnsTrailingUnits ==
    pc = "done" =>
        \A k \in 0..MaxNum :
            (rangeStr = LastExpr(Dec(k)) /\ PositionsOneToN(InputUnits))
                => ret = Return(Trailing(InputUnits, Min(k, Len(InputUnits))))

\* C3 as stated: for all integers a and b, "a-b" returns exactly the units
\* with a <= position <= b, in order (empty when a > b).
C3_IntervalAllIntegers ==
    pc = "done" =>
        \A a \in (0 - MaxNum)..MaxNum : \A b \in (0 - MaxNum)..MaxNum :
            rangeStr = SDec(a) \o <<"-">> \o SDec(b)
                => ret = Return(UnitsBetween(InputUnits, a, b))

\* C3 amended: for all integers a >= 0 and all integers b, "a-b" returns
\* exactly the units with a <= position <= b, in order (empty when a > b).
C3_IntervalNonNegativeStart ==
    pc = "done" =>
        \A a \in 0..MaxNum : \A b \in (0 - MaxNum)..MaxNum :
            rangeStr = SDec(a) \o <<"-">> \o SDec(b)
                => ret = Return(UnitsBetween(InputUnits, a, b))

\* An "a-b" call with a < b has returned the two units lying in a..b.
C3_Witness ==
    /\ pc = "done"
    /\ Len(InputUnits) = 2
    /\ PosOf(InputUnits[1]) < PosOf(InputUnits[2])
    /\ \E a \in 1..MaxNum : \E b \in 1..MaxNum :
           /\ rangeStr = Dec(a) \o <<"-">> \o Dec(b)
           /\ a < b
           /\ ret.ok /\ ret.value = InputUnits

\* C4: over units with unique positions, the bare expression "n" returns at
\* most one unit, the one at position n (none when there is no such unit).
C4_SingleReturnsThatUnit ==
    pc = "done" =>
        \A n \in (0 - MaxNum)..MaxNum :
            (rangeStr = SDec(n) /\ UniquePositions(InputUnits))
                => /\ ret = Return(UnitsBetween(InputUnits, n, n))
                   /\ Len(ret.value) <= 1

\* A bare "n" call has returned the one unit at position n out of two.
C4_Witness ==
    /\ pc = "done"
    /\ UniquePositions(InputUnits)
    /\ Len(InputUnits) = 2
    /\ \E n \in 1..MaxNum :
           /\ rangeStr = Dec(n)
           /\ ret.ok /\ Len(ret.value) = 1 /\ PosOf(ret.value[1]) = n

\* C5: an expression of a recognised form with no digit in a required
\* numeric slot fails with InvalidRangeFormat.
C5_NoDigitsFails ==
    (pc = "done" /\ RecognisedHead(rangeStr)
        /\ \E slot \in NumericSlots(rangeStr) : ~HasDecimalDigit(slot))
        => Failed

\* C6: an expression of a recognised form with a numeric slot that starts
\* with a digit and contains a non-digit fails with InvalidRangeFormat.
C6_TrailingGarbageFails ==
    (pc = "done" /\ RecognisedHead(rangeStr)
        /\ \E slot \in NumericSlots(rangeStr) :
               /\ Len(slot) > 0
               /\ IsDigit(slot[1], 10)
               /\ ~AllDecimalDigits(slot))
        => Failed

\* C7: an expression containing ':' whose part before the first ':' is
\* neither "first" nor "last" fails with InvalidRangeFormat.
C7_UnknownHeadFails ==
    (pc = "done" /\ HasChar(rangeStr, ":") /\ ~RecognisedHead(rangeStr))
        => Failed

\* C8: "first:count" and "last:count" with count <= 0 return the empty
\* sequence as a success.
C8_NonPositiveCountIsEmpty ==
    pc = "done" =>
        \A count \in (0 - MaxNum)..0 :
            rangeStr \in {FirstExpr(SDec(count)), LastExpr(SDec(count))}
                => ret = Return(<<>>)

(***************************************************************************)
(* Vocabulary of the search contract.                                       *)
(***************************************************************************)
RECURSIVE Concat(_)
Concat(seqs) == IF Len(seqs) = 0 THEN <<>> ELSE Head(seqs) \o Concat(Tail(seqs))

\* The verses in scope of request a, as match records, in the provider's
\* nested order collection -> book -> chapter -> verse.
VersesInScope(a, data) ==
    LET OfChapter(coll, b, ch) ==
            [v \in 1..Len(ch.verses) |->
                [collection |-> coll, book |-> b.book, chapter |-> ch.chapter,
                 verse |-> ch.verses[v].verse, reference |-> ch.verses[v].reference,
                 text |-> ch.verses[v].text]]
        OfBook(coll, b) ==
            Concat([k \in 1..Len(b.chapters) |->
                       IF a.chapter # 0 /\ b.chapters[k].chapter # a.chapter THEN <<>>
                       ELSE OfChapter(coll, b, b.chapters[k])])
        OfCollection(c) ==
            Concat([k \in 1..Len(c.books) |->
                       IF a.book # "" /\ c.books[k].book # a.book THEN <<>>
                       ELSE OfBook(c.collection, c.books[k])])
    IN  Concat([k \in 1..Len(data) |->
                   IF a.collection # "" /\ data[k].collection # a.collection THEN <<>>
                   ELSE OfCollection(data[k])])

\* The paragraphs in scope of request a, as match records, in the order
\* talk -> paragraph of allTalks.
ParagraphsInScope(a, data) ==
    LET OfTalk(t) ==
            [k \in 1..Len(t.body) |->
                [session |-> t.session, title |-> t.title, speaker |-> t.speaker,
                 paragraph |-> k, text |-> t.body[k]]]
    IN  Concat([k \in 1..Len(data.allTalks) |->
                   IF a.session # "" /\ data.allTalks[k].session # a.session THEN <<>>
                   ELSE OfTalk(data.allTalks[k])])

UnitsInScope ==
    IF callee = "searchScriptures" THEN VersesInScope(args, scriptureData)
    ELSE ParagraphsInScope(args, conferenceData)

\* The full list of matches of the request, in traversal order.
FullMatchList ==
    LET Hit(m) == includes(toLowerCase(m.text), toLowerCase(args.query))
    IN  SelectSeq(UnitsInScope, Hit)

\* The limit in force: the one requested, else the tool's default.
Limit ==
    IF args.maxResults # Omitted THEN args.maxResults
    ELSE IF callee = "searchScriptures" THEN DefaultScriptureMaxResults
    ELSE DefaultTalkMaxResults

Searching == callee \in {"searchScriptures", "searchConferenceTalks"}
SearchReturned == Searching /\ pc = "done" /\ ret.ok

\* The verses and paragraphs looked at so far.
UnitsExamined ==
    LET IsUnit(x) == x[1] \in {"verse", "paragraph"}
    IN  SelectSeq(examined, IsUnit)

(***************************************************************************)
(* Claims about the searches, checked under SpecSearch.                     *)
(***************************************************************************)
\* C9: a search returns at most `limit` matches, and they are exactly the
\* first min(limit, total) entries of the full match list in traversal order.
C9_ResultIsPrefixOfMatches ==
    SearchReturned =>
        /\ Len(ret.value.results) <= Limit
        /\ ret.value.results = SubSeq(FullMatchList, 1, Min(Limit, Len(FullMatchList)))

\* A search has returned `limit` >= 2 matches although more units match.
C9_Witness ==
    /\ SearchReturned
    /\ Limit >= 2
    /\ Len(FullMatchList) > Limit
    /\ Len(ret.value.results) = Limit

\* C10: once the limit-th match has been appended, no further verse,
\* chapter, book, collection, paragraph or talk is examined.
C10_NothingExaminedAfterLimit ==
    [][(Searching /\ Len(matches) >= Limit) => examined' = examined]_vars

\* A search has returned at the limit with units in scope left unexamined,
\* the last unit examined being the one matched last.
C10_Witness ==
    /\ SearchReturned
    /\ Len(matches) = Limit
    /\ Len(UnitsExamined) < Len(UnitsInScope)
    /\ examined[Len(examined)][1] \in {"verse", "paragraph"}

\* The upper-case letter of a lower-case letter; other characters as they are.
UpperChar(c) ==
    IF \E k \in 1..26 : LowerLetters[k] = c
    THEN UpperLetters[CHOOSE k \in 1..26 : LowerLetters[k] = c]
    ELSE c

\* The all-lower-case and the all-upper-case form of q.  Two strings differ
\* only in letter case exactly when they have the same two forms.
CaseForms(q) ==
    {[k \in 1..Len(q) |-> LowerChar(q[k])], [k \in 1..Len(q) |-> UpperChar(q[k])]}

\* What the search returns for query q with the same scope and limit: the
\* units in scope that the code's test accepts for q, cut at the limit.
ReturnedFor(units, q) ==
    LET term == Term([args EXCEPT !.query = q])
        Hit(m) == TextMatches(m.text, term)
        all == SelectSeq(units, Hit)
    IN  SubSeq(all, 1, Min(Limit, Len(all)))

\* C11: search is case-insensitive: the list returned for a query is the
\* list returned for its all-lower-case and its all-upper-case form, hence
\* for every query that differs from it only in letter case.
C11_CaseInsensitive ==
    SearchReturned =>
        LET units == UnitsInScope
        IN  \A q \in CaseForms(args.query) :
                ret.value.results = ReturnedFor(units, q)

\* A search for a query with an upper-case letter has returned a match.
C11_Witness ==
    /\ SearchReturned
    /\ args.query # toLowerCase(args.query)
    /\ args.query \notin CaseForms(args.query)
    /\ Len(ret.value.results) >= 1

\* The scope of a scripture search is ill-formed: a book without a
\* collection, or a chapter without both a collection and a book.
IllFormedScope ==
    \/ args.book # "" /\ args.collection = ""
    \/ args.chapter # 0 /\ (args.collection = "" \/ args.book = "")

\* C12: searchScriptures fails with InvalidScope on an ill-formed scope,
\* before any corpus unit is examined and without any partial result.
C12_IllFormedScopeFailsFirst ==
    (callee = "searchScriptures" /\ pc # "call" /\ IllFormedScope)
        => /\ pc = "done"
           /\ ~ret.ok
           /\ ret.error = "InvalidScope"
           /\ ret.value = <<>>
           /\ examined = <<>>
           /\ matches = <<>>

\* A search with a chapter and a collection but no book has failed.
C12_Witness ==
    /\ callee = "searchScriptures"
    /\ pc = "done"
    /\ args.chapter # 0 /\ args.collection # "" /\ args.book = ""
    /\ ret.error = "InvalidScope"

\* C13: when fewer than `limit` units match, the search returns exactly
\* the units in scope whose lower-cased text contains the lower-cased
\* query, in the provider's nested traversal order.
C13_AllMatchesInTraversalOrder ==
    SearchReturned =>
        LET units == UnitsInScope
            Hit(m) == includes(toLowerCase(m.text), toLowerCase(args.query))
            full == SelectSeq(units, Hit)
            returned == {ret.value.results[j] : j \in 1..Len(ret.value.results)}
        IN  Len(full) < Limit
                => /\ ret.value.results = full
                   /\ \A k \in 1..Len(units) : Hit(units[k]) <=> units[k] \in returned

\* An unscoped search below its limit has returned matches from two
\* collections and left a unit in scope out.
C13_Witness ==
    /\ SearchReturned
    /\ callee = "searchScriptures"
    /\ Len(FullMatchList) < Limit
    /\ Len(ret.value.results) >= 2
    /\ Len(ret.value.results) < Len(UnitsInScope)
    /\ ret.value.results[1].collection # ret.value.results[Len(ret.value.results)].collection

\* A search scope names a collection, book, chapter or session that the
\* loaded corpus does not hold.
ScopeNamesAbsent ==
    /\ Searching
    /\ ~(callee = "searchScriptures" /\ IllFormedScope)
    /\ args.collection # "" \/ args.session # ""
    /\ UnitsInScope = <<>>

\* C17: a search whose scope names something absent from the corpus fails
\* with NotFound; it never succeeds with an empty result list.
C17_AbsentScopeFails ==
    (pc = "done" /\ ScopeNamesAbsent) => (~ret.ok /\ ret.error = "NotFound")

\* C20: in every successful search response, count is the number of
\* entries of results.
C20_CountIsNumberReturned ==
    SearchReturned => ret.value.count = Len(ret.value.results)

\* A truncated search has returned two matches with count 2.
C20_Witness ==
    /\ SearchReturned
    /\ Len(FullMatchList) > Len(ret.value.results)
    /\ ret.value.count = 2

\* The whole corpus of the tool called, as match records.
WholeCorpus ==
    IF callee = "searchScriptures" THEN VersesInScope(NoArgs, scriptureData)
    ELSE ParagraphsInScope(NoArgs, conferenceData)

\* Match r lies in the scope the request supplied.
InRequestedScope(r) ==
    IF callee = "searchScriptures"
    THEN /\ args.collection # "" => r.collection = args.collection
         /\ args.book # "" => r.book = args.book
         /\ args.chapter # 0 => r.chapter = args.chapter
    ELSE args.session # "" => r.session = args.session

Unscoped ==
    IF callee = "searchScriptures"
    THEN args.collection = "" /\ args.book = "" /\ args.chapter = 0
    ELSE args.session = ""

\* C23: every match a search returns lies in the collection, book and
\* chapter (or the session) the request supplied; a search without scope
\* that stays below its limit has looked at every unit of the corpus.
C23_ScopeNarrowsSearch ==
    SearchReturned =>
        /\ \A j \in 1..Len(ret.value.results) : InRequestedScope(ret.value.results[j])
        /\ (Unscoped /\ Len(ret.value.results) < Limit)
               => Len(UnitsExamined) = Len(WholeCorpus)

\* A search scoped to one session has returned a match while a talk of
\* another session matches too.
C23_Witness ==
    /\ SearchReturned
    /\ callee = "searchConferenceTalks"
    /\ args.session # ""
    /\ Len(ret.value.results) >= 1
    /\ Len(ret.value.results) < Limit
    /\ \E k \in 1..Len(WholeCorpus) :
           /\ WholeCorpus[k].session # args.session
           /\ includes(toLowerCase(WholeCorpus[k].text), toLowerCase(args.query))

(***************************************************************************)
(* A claim relating the two resolvers, checked under SpecResolve.           *)
(***************************************************************************)
\* The verses numbered 1..n carrying the texts of the paragraphs.
VersesOf(paras) == [k \in 1..Len(paras) |-> [verse |-> k, text |-> paras[k]]]

\* C14: parseParagraphRange has the outcome of parseVerseRange applied to
\* the verses numbered 1..n with the same texts: both fail, or both return
\* the same positions and texts in the same order.
C14_ParagraphsResolveAsVerses ==
    (pc = "done" /\ callee = "parseParagraphRange")
        => LET v == parseVerseRange(rangeStr, VersesOf(paragraphs))
           IN  /\ ret.ok = v.ok
               /\ ret.error = v.error
               /\ Len(ret.value) = Len(v.value)
               /\ \A k \in 1..Len(ret.value) :
                      /\ ret.value[k].paragraph = v.value[k].verse
                      /\ ret.value[k].text = v.value[k].text

\* An interval over two paragraphs has returned both, and so does the
\* verse resolver.
C14_Witness ==
    /\ pc = "done"
    /\ callee = "parseParagraphRange"
    /\ Len(paragraphs) = 2
    /\ rangeStr = <<"1", "-", "2">>
    /\ ret.ok /\ Len(ret.value) = 2

(***************************************************************************)
(* Claims about the lookup tools and the serving process, checked under     *)
(* SpecServer.                                                              *)
(***************************************************************************)
\* A get_conference_talk request for a loaded session has been handled.
TalkRequestHandled ==
    /\ pc = "done"
    /\ callee = "getConferenceTalk"
    /\ \E s \in 1..Len(conferenceData.sessions) :
           conferenceData.sessions[s].session = args.session

\* The talks of the requested session in provider order.
Candidates ==
    LET s == CHOOSE x \in 1..Len(conferenceData.sessions) :
                 conferenceData.sessions[x].session = args.session
    IN  conferenceData.sessions[s].talks

\* Talk t satisfies tier k of the request: 1 exact slug, 2 exact title,
\* 3 equal normalized titles, 4 normalized title contains the normalized
\* request.  A tier whose key is not supplied is satisfied by no talk.
Satisfies(k, t) ==
    CASE k = 1 -> args.slug # "" /\ t.slug = args.slug
      [] k = 2 -> args.title # <<>> /\ t.title = args.title
      [] k = 3 -> args.title # <<>> /\ normalize(t.title) = normalize(args.title)
      [] k = 4 -> /\ args.title # <<>>
                  /\ includes(normalize(t.title), normalize(args.title))
TierFinds(k) == \E i \in 1..Len(Candidates) : Satisfies(k, Candidates[i])
SomeTierFinds == \E k \in 1..4 : TierFinds(k)
WinningTier == CHOOSE k \in 1..4 : TierFinds(k) /\ \A j \in 1..(k - 1) : ~TierFinds(j)
Winner ==
    Candidates[CHOOSE i \in 1..Len(Candidates) :
                   /\ Satisfies(WinningTier, Candidates[i])
                   /\ \A j \in 1..(i - 1) : ~Satisfies(WinningTier, Candidates[j])]

\* C15: getConferenceTalk answers from the first talk, in provider order,
\* of the earliest tier that finds anything (exact slug, exact title,
\* equal normalized title, contained normalized title); it reports no talk
\* only when no tier finds one.
C15_TiersInFixedOrder ==
    TalkRequestHandled =>
        IF SomeTierFinds
        THEN /\ ret.error # "NotFound"
             /\ ret.ok => /\ ret.value.title = Winner.title
                          /\ ret.value.speaker = Winner.speaker
                          /\ ret.value.session = Winner.session
        ELSE ~ret.ok /\ ret.error = "NotFound"

\* The second talk has exactly the requested title while the first talk
\* only has an equal normalized title: the second talk is returned.
C15_Witness ==
    /\ TalkRequestHandled
    /\ ret.ok
    /\ Len(Candidates) >= 2
    /\ WinningTier = 2
    /\ Satisfies(3, Candidates[1]) /\ ~Satisfies(2, Candidates[1])
    /\ Satisfies(2, Candidates[2])
    /\ ret.value.speaker = Candidates[2].speaker

\* The scripture corpus holds the book (chapter, verse) a request names.
BookLoaded(collection, book) ==
    \E c \in 1..Len(scriptureData) :
        /\ scriptureData[c].collection = collection
        /\ \E b \in 1..Len(scriptureData[c].books) : scriptureData[c].books[b].book = book
ChapterLoaded(collection, book, chapter) ==
    \E c \in 1..Len(scriptureData) :
        /\ scriptureData[c].collection = collection
        /\ \E b \in 1..Len(scriptureData[c].books) :
               /\ scriptureData[c].books[b].book = book
               /\ \E ch \in 1..Len(scriptureData[c].books[b].chapters) :
                      scriptureData[c].books[b].chapters[ch].chapter = chapter
VerseLoaded(collection, book, chapter, verse) ==
    \E c \in 1..Len(scriptureData) :
        /\ scriptureData[c].collection = collection
        /\ \E b \in 1..Len(scriptureData[c].books) :
               /\ scriptureData[c].books[b].book = book
               /\ \E ch \in 1..Len(scriptureData[c].books[b].chapters) :
                      /\ scriptureData[c].books[b].chapters[ch].chapter = chapter
                      /\ \E v \in 1..Len(scriptureData[c].books[b].chapters[ch].verses) :
                             scriptureData[c].books[b].chapters[ch].verses[v].verse = verse
SessionLoaded(session) ==
    \E s \in 1..Len(conferenceData.sessions) :
        conferenceData.sessions[s].session = session

\* The handled lookup request names something the corpus does not hold.
ReferencesAbsent ==
    /\ pc = "done"
    /\ CASE callee = "getBookInfo" -> ~BookLoaded(args.collection, args.book)
         [] callee = "getScriptureText" ->
                \/ ~ChapterLoaded(args.collection, args.book, args.chapter)
                \/ /\ args.verse # Omitted
                   /\ ~VerseLoaded(args.collection, args.book, args.chapter, args.verse)
         [] callee = "listConferenceTalks" ->
                args.session # "" /\ ~SessionLoaded(args.session)
         [] callee = "getConferenceTalk" ->
                ~SessionLoaded(args.session) \/ ~SomeTierFinds
         [] OTHER -> FALSE

\* The failure names the key the handled request supplied: the book of a
\* scripture lookup, the session of a talk lookup.
NamesAttemptedKey ==
    CASE callee = "getBookInfo" \/ callee = "getScriptureText" ->
             ret.detail.book = args.book
      [] OTHER -> ret.detail.session = args.session

\* C16: a lookup request that names an absent book, chapter, verse, session
\* or talk fails with NotFound, the failure names the keys attempted, and
\* there is no result.
C16_AbsentReferenceIsNotFound ==
    ReferencesAbsent =>
        /\ ~ret.ok
        /\ ret.error = "NotFound"
        /\ ret.value = <<>>
        /\ NamesAttemptedKey

\* A get_scripture_text request for a loaded chapter has been handled.
ChapterRequestHandled ==
    /\ pc = "done"
    /\ callee = "getScriptureText"
    /\ ChapterLoaded(args.collection, args.book, args.chapter)

\* The chapter the request names.
RequestedChapter ==
    LET c == CHOOSE x \in 1..Len(scriptureData) :
                 scriptureData[x].collection = args.collection
        b == CHOOSE x \in 1..Len(scriptureData[c].books) :
                 scriptureData[c].books[x].book = args.book
        ch == CHOOSE x \in 1..Len(scriptureData[c].books[b].chapters) :
                  scriptureData[c].books[b].chapters[x].chapter = args.chapter
    IN  scriptureData[c].books[b].chapters[ch]

\* C25: getScriptureText answers a supplied verse number (0 included) with
\* exactly that verse or with NotFound, whatever verseRange holds; without
\* a verse number it answers a supplied verseRange with the resolver's
\* outcome over the chapter's verses; with neither, with the whole chapter.
C25_ModeByPrecedence ==
    ChapterRequestHandled =>
        IF args.verse # Omitted
        THEN IF \E k \in 1..Len(RequestedChapter.verses) :
                    RequestedChapter.verses[k].verse = args.verse
             THEN /\ ret.ok
                  /\ ret.value \in {RequestedChapter.verses[k] :
                                       k \in 1..Len(RequestedChapter.verses)}
                  /\ ret.value.verse = args.verse
             ELSE ~ret.ok /\ ret.error = "NotFound"
        ELSE IF args.verseRange # <<>>
        THEN ret = parseVerseRange(args.verseRange, RequestedChapter.verses)
        ELSE ret.ok /\ ret.value = RequestedChapter

\* C26: getConferenceTalk answers a supplied paragraph number p with
\* paragraph p of the talk found (text = body[p-1], counting from 0) when
\* 1 <= p <= number of paragraphs, and with 'Paragraph out of range' for
\* every other supplied p, 0 and negative numbers included.
C26_ParagraphOrOutOfRange ==
    (TalkRequestHandled /\ SomeTierFinds /\ args.paragraph # Omitted)
        => IF 1 <= args.paragraph /\ args.paragraph <= Len(Winner.body)
           THEN /\ ret.ok
                /\ ret.value.paragraph = args.paragraph
                /\ ret.value.text = Winner.body[args.paragraph]
                /\ ret.value.title = Winner.title
           ELSE ~ret.ok /\ ret.error = "OutOfRange"

\* The request's title is supplied, normalizes to the empty string, is
\* the exact title of no talk, and no slug matches.
EmptyNormalizedTitle ==
    /\ TalkRequestHandled
    /\ ~TierFinds(1)
    /\ args.title # <<>>
    /\ normalize(args.title) = <<>>
    /\ ~TierFinds(2)

C19_RequestsLeaveCorpusAlone ==
    [][scriptureData' = scriptureData /\ conferenceData' = conferenceData]_vars

\* A session has been listed and the corpus is still one the loader built.
C19_Witness ==
    /\ pc = "done"
    /\ callee = "listConferenceTalks"
    /\ ret.ok
    /\ args.session # ""
    /\ ret.value.talk_count >= 2
    /\ scriptureData = ServedScripture
    /\ conferenceData \in ServedConferences

(***************************************************************************)
(* A claim about startup, checked under SpecStartup.                        *)
(***************************************************************************)
\* Some part of the corpus failed to load: console.error has reported it.
LoadFailed == errorLog # <<>>

\* C18: when any part of the corpus fails to load (a scripture collection
\* file, the talk directory, one talk file), the process does not reach the
\* serving state.
C18_LoadFailureNeverServes ==
    LoadFailed => pc # "serving"

\* The scripture collections are all loaded, each once and in order.
ScriptureLoaded ==
    /\ Len(scriptureData) = NumCollections
    /\ \A c \in 1..NumCollections : scriptureData[c].collection = collections[c]

\* The loading of talks is over: the directory loop has run to its end, or
\* a failing readdir has ended it.
TalkLoadingOver ==
    \/ loader.dirent > NumSessions
    \/ \E k \in 1..Len(errorLog) : errorLog[k].what = "talks"

\* C22: the transport is connected, and a request handled, only after the
\* scripture collections and the talks have been loaded; from then on the
\* process stays serving and the corpus is not loaded again.
C22_ServesOnlyAfterLoading ==
    /\ []((pc = "serving" \/ ret # NoRet) =>
             (pc = "serving" /\ ScriptureLoaded /\ TalkLoadingOver))
    /\ [][pc = "serving" =>
             /\ pc' = "serving"
             /\ scriptureData' = scriptureData
             /\ conferenceData' = conferenceData
             /\ loader' = loader]_vars

\* A request has been answered over a corpus with all collections and at
\* least two talks.
C22_Witness ==
    /\ pc = "serving"
    /\ callee = "listConferenceTalks"
    /\ ret.ok
    /\ ScriptureLoaded
    /\ Len(conferenceData.allTalks) >= 2

\* How often talk occurs in the list.
Occurrences(list, talk) == Cardinality({k \in 1..Len(list) : list[k] = talk})

\* The talk counts list_conference_talks reports, added up.
RECURSIVE SumOfTalks(_)
SumOfTalks(listing) ==
    IF Len(listing) = 0 THEN 0 ELSE Head(listing).talks + SumOfTalks(Tail(listing))

\* C27: in every state the two conference indexes agree: each talk of
\* allTalks occurs once there, once in the list of its own session and in
\* no other list; the lists hold no other talk; every loaded talk has an
\* array body; the counts list_conference_talks reports add up to the
\* length of allTalks.
C27_ConferenceIndexesAgree ==
    LET all == conferenceData.allTalks
        lists == conferenceData.sessions
    IN  /\ \A i \in 1..Len(all) :
               /\ Occurrences(all, all[i]) = 1
               /\ "body" \in DOMAIN all[i]
               /\ \E s \in 1..Len(lists) : lists[s].session = all[i].session
               /\ \A s \in 1..Len(lists) :
                      Occurrences(lists[s].talks, all[i])
                          = IF lists[s].session = all[i].session THEN 1 ELSE 0
        /\ \A s \in 1..Len(lists) :
               /\ \A k \in 1..Len(lists[s].talks) : Occurrences(all, lists[s].talks[k]) = 1
               /\ \A r \in 1..Len(lists) : lists[r].session = lists[s].session => r = s
        /\ SumOfTalks(listConferenceTalks([session |-> ""], conferenceData).value.sessions)
               = Len(all)

\* The process serves two talks of two sessions after one talk file failed
\* to load.
C27_Witness ==
    /\ callee = "main"
    /\ pc = "serving"
    /\ Len(conferenceData.sessions) = 2
    /\ Len(conferenceData.allTalks) = 2
    /\ \E k \in 1..Len(errorLog) : errorLog[k].what = "talk"

(***************************************************************************)
(* A claim about units out of place, checked under SpecIrregular.           *)
(***************************************************************************)
\* The expression follows the grammar: first:N, last:N, A-B or N, every
\* number a non-empty run of decimal digits.
WellFormed(e) ==
    /\ RecognisedHead(e)
    /\ \A slot \in NumericSlots(e) : Len(slot) > 0 /\ AllDecimalDigits(slot)

\* sub is seq with some elements left out, the rest in the order of seq.
IsSubsequence(sub, seq) ==
    \E f \in [1..Len(sub) -> 1..Len(seq)] :
        /\ \A i \in 1..Len(sub) : seq[f[i]] = sub[i]
        /\ \A i \in 1..Len(sub) : \A j \in 1..Len(sub) : i < j => f[i] < f[j]

\* C21: over verses that are numbered with gaps, repeats or out of order,
\* every well-formed range expression returns normally an order-preserving
\* subsequence of its input, and a search with a well-formed scope returns
\* normally the matches of its traversal.
C21_IrregularPositionsDoNotCrash ==
    pc = "done" =>
        IF callee = "parseVerseRange"
        THEN WellFormed(rangeStr) => ret.ok /\ IsSubsequence(ret.value, allVerses)
        ELSE ~IllFormedScope
                 => /\ ret.ok
                    /\ ret.value.count = Len(ret.value.results)
                    /\ IsSubsequence(ret.value.results, VersesInScope(args, scriptureData))

\* "last:2" over verses numbered 3, 1 has returned both in input order.
C21_Witness ==
    /\ pc = "done"
    /\ callee = "parseVerseRange"
    /\ rangeStr = LastExpr(<<"2">>)
    /\ Len(allVerses) = 2
    /\ allVerses[1].verse = 3 /\ allVerses[2].verse = 1
    /\ ret.ok
    /\ ret.value = allVerses

(***************************************************************************)
(* A claim about the web-scraping revision, checked under SpecWeb.          *)
(***************************************************************************)
\* The page came back and the request asks for a range and for no verse.
RangeRequestAnswered ==
    /\ pc = "done"
    /\ callee = "getScripture"
    /\ args.collection \in SCRIPTURE_COLLECTIONS
    /\ ~(~ret.ok /\ ret.detail.cause = "FailedToFetch")
    /\ ~TruthyArg(args.verse)
    /\ TruthyChars(args.verseRange)

\* C24: a verseRange that resolves to no verses is a success of
\* get_scripture: the response carries an empty verses list.
C24_EmptyRangeIsSuccess ==
    (RangeRequestAnswered /\ parseVerseRange(args.verseRange, allVerses) = Return(<<>>))
        => ret.ok /\ ret.value.verses = <<>>

====
